---- MODULE Spec2Model ----
(***************************************************************************)
(* A model of the image_bed request-serving core: the id generator         *)
(* (src/src/id/generate.rs), the metadata store (src/src/db/mod.rs), the   *)
(* blob store (src/src/store), and the HTTP pipeline                       *)
(* RequestIdService -> SizeLimitService -> Handle (src/src/http).          *)
(*                                                                         *)
(* Strings are sequences of one-character strings, byte strings are        *)
(* sequences of numbers in 0..255.  Every await on a collaborator is one   *)
(* action: the collaborator executes the operation at the moment the       *)
(* awaiting task resumes, and the task runs on to its next await.          *)
(***************************************************************************)
EXTENDS Integers, Sequences, FiniteSets, TLC

VARIABLES
    resources,    \* rows of table resources (db/mod.rs)
    id_value,     \* the counter row of table id_generate (generate.rs:51)
    blobs,        \* the blob store: <<bucket, key>> -> bytes
    now,          \* the wall clock (Local::today, SystemTime::now)
    id_list,      \* InnerGenerator.id_list, one per process
    mutex,        \* Generator.inner's Mutex, one per process: 0 or the holder
    proc,         \* the process (Handler) that serves each task
    max_body_size,\* Handler.max_body_size
    pc,           \* each task's position (the await it is suspended at)
    req,          \* the Request each task carries down the pipeline
    buf,          \* SizeLimitService's buffer of the task
    loc,          \* the handler's locals of the task
    resp,         \* the task's outcome (out: Ok(Response) or Err) and Handle's (inner)
    request_id,   \* RequestIdFuture.request_id of the task
    calls,        \* Handle's branch, then the collaborator calls of the task, in order
    refill_log,   \* ghost: every successful counter increment, in order
    returned,     \* ghost: the ids get_id returned, per process, in order
    seen          \* ghost: the urls answered before the request came (an upload's: for its bytes)

vars == <<resources, id_value, blobs, now, id_list, mutex, proc, max_body_size,
          pc, req, buf, loc, resp, request_id, calls, refill_log, returned, seen>>

(***************************************************************************)
(* Bounds of the model.                                                    *)
(***************************************************************************)
NumTasks == 4
NumCallers == 3
NumProcs == 2
MaxCalls == 12
MaxChunks == 2
MaxLimit == 2
MaxUploads == 2
MaxRange == 3
MaxBody == 3
MaxLost == 1

Tasks == 1..NumTasks
Procs == 1..NumProcs

(***************************************************************************)
(* Strings and bytes.                                                      *)
(***************************************************************************)
HexChars == <<"0", "1", "2", "3", "4", "5", "6", "7",
              "8", "9", "a", "b", "c", "d", "e", "f">>

RECURSIVE hex_encode(_)
hex_encode(bytes) ==
    IF bytes = <<>> THEN <<>>
    ELSE <<HexChars[(Head(bytes) \div 16) + 1], HexChars[(Head(bytes) % 16) + 1]>>
         \o hex_encode(Tail(bytes))

Take(s, n) == SubSeq(s, 1, IF Len(s) < n THEN Len(s) ELSE n)

starts_with(s, prefix) ==
    /\ Len(prefix) <= Len(s)
    /\ SubSeq(s, 1, Len(prefix)) = prefix

\* i64::to_be_bytes for |i| < 2^31 (the integers of the model): the four
\* high bytes are the sign extension.
to_be_bytes(i) ==
    [k \in 1..8 |->
        IF k <= 4 THEN (IF i < 0 THEN 255 ELSE 0)
        ELSE (i \div (256 ^ (8 - k))) % 256]

from_be_bytes(bytes) ==
    LET RECURSIVE Value(_)
        Value(b) == IF b = <<>> THEN 0 ELSE 256 * Value(SubSeq(b, 1, Len(b) - 1)) + b[Len(b)]
    IN Value(SubSeq(bytes, 5, 8))

\* The MD5 digests of the 8-byte big-endian encodings of 1..200, the
\* integers the counter reaches here.
Md5Table == <<
    <<250, 90, 217, 168, 85, 126, 90, 132, 207, 35, 229, 45, 61, 58, 223, 119>>,
    <<230, 117, 204, 33, 193, 247, 130, 23, 207, 93, 106, 91, 25, 41, 175, 222>>,
    <<89, 107, 226, 212, 79, 165, 245, 87, 112, 43, 20, 79, 253, 225, 1, 78>>,
    <<89, 207, 245, 66, 250, 231, 224, 196, 38, 126, 69, 116, 10, 18, 201, 160>>,
    <<170, 160, 116, 84, 250, 147, 237, 45, 55, 180, 197, 218, 159, 47, 135, 253>>,
    <<74, 220, 130, 36, 235, 115, 106, 161, 14, 22, 131, 144, 172, 140, 194, 81>>,
    <<227, 225, 48, 19, 183, 77, 135, 41, 83, 226, 161, 34, 92, 43, 92, 208>>,
    <<174, 34, 25, 181, 55, 22, 51, 108, 59, 178, 111, 138, 95, 246, 147, 192>>,
    <<219, 87, 46, 90, 74, 207, 28, 89, 142, 42, 60, 6, 192, 214, 0, 87>>,
    <<237, 156, 125, 90, 82, 168, 172, 161, 227, 218, 123, 62, 89, 146, 139, 42>>,
    <<137, 69, 127, 243, 106, 77, 105, 23, 19, 223, 89, 11, 166, 115, 139, 135>>,
    <<133, 146, 25, 240, 248, 142, 156, 101, 57, 55, 106, 215, 18, 2, 183, 83>>,
    <<7, 141, 120, 150, 170, 70, 98, 164, 109, 16, 193, 79, 25, 79, 160, 137>>,
    <<187, 250, 227, 147, 179, 223, 13, 243, 41, 11, 92, 213, 67, 23, 30, 66>>,
    <<27, 60, 255, 121, 250, 110, 251, 80, 22, 160, 0, 206, 43, 155, 114, 27>>,
    <<163, 112, 205, 112, 61, 13, 4, 90, 190, 158, 64, 82, 94, 123, 173, 218>>,
    <<35, 223, 124, 177, 173, 119, 66, 197, 93, 157, 255, 178, 76, 85, 252, 194>>,
    <<216, 253, 45, 93, 118, 227, 169, 253, 209, 223, 238, 130, 220, 117, 223, 160>>,
    <<212, 244, 52, 246, 229, 125, 72, 119, 122, 245, 108, 39, 150, 156, 48, 144>>,
    <<105, 29, 204, 17, 104, 249, 255, 209, 92, 4, 51, 23, 110, 113, 75, 177>>,
    <<23, 187, 223, 59, 193, 9, 48, 40, 199, 137, 92, 139, 58, 217, 169, 165>>,
    <<29, 19, 244, 195, 216, 192, 183, 251, 252, 111, 196, 234, 57, 233, 157, 65>>,
    <<235, 14, 232, 236, 42, 169, 44, 254, 50, 185, 225, 255, 28, 105, 68, 123>>,
    <<162, 17, 180, 112, 60, 167, 214, 46, 192, 147, 191, 69, 123, 73, 7, 41>>,
    <<164, 222, 64, 56, 27, 39, 7, 43, 232, 16, 52, 131, 132, 230, 248, 88>>,
    <<15, 232, 150, 93, 5, 195, 119, 6, 165, 191, 190, 200, 134, 41, 237, 104>>,
    <<175, 54, 112, 118, 53, 36, 67, 237, 251, 233, 172, 215, 149, 23, 85, 188>>,
    <<168, 122, 210, 89, 200, 9, 58, 226, 0, 240, 220, 223, 236, 55, 187, 22>>,
    <<141, 73, 112, 226, 115, 251, 80, 142, 145, 68, 142, 171, 5, 160, 164, 132>>,
    <<42, 11, 178, 2, 13, 136, 34, 221, 111, 67, 42, 31, 127, 200, 199, 73>>,
    <<54, 192, 227, 235, 205, 143, 158, 67, 252, 217, 176, 54, 168, 175, 174, 42>>,
    <<181, 77, 72, 164, 247, 95, 90, 121, 239, 7, 114, 25, 138, 135, 62, 149>>,
    <<105, 184, 202, 54, 34, 105, 170, 183, 197, 224, 114, 146, 80, 134, 107, 209>>,
    <<154, 185, 75, 46, 202, 80, 239, 15, 251, 11, 134, 23, 155, 231, 5, 168>>,
    <<114, 180, 1, 58, 243, 122, 35, 160, 24, 8, 187, 250, 35, 245, 108, 52>>,
    <<92, 74, 168, 192, 101, 82, 35, 57, 73, 32, 233, 41, 210, 126, 218, 77>>,
    <<97, 229, 153, 75, 249, 52, 249, 210, 234, 193, 141, 165, 203, 43, 240, 115>>,
    <<135, 242, 80, 248, 141, 149, 191, 124, 232, 30, 193, 98, 180, 115, 219, 117>>,
    <<158, 53, 133, 86, 167, 240, 168, 59, 188, 218, 49, 80, 216, 185, 60, 37>>,
    <<87, 13, 51, 10, 51, 69, 187, 59, 144, 33, 202, 70, 142, 148, 158, 240>>,
    <<92, 145, 101, 54, 240, 95, 117, 187, 31, 202, 52, 32, 140, 57, 58, 33>>,
    <<126, 5, 53, 134, 140, 212, 93, 255, 116, 136, 75, 251, 160, 250, 21, 148>>,
    <<252, 150, 231, 146, 240, 1, 100, 65, 45, 205, 113, 211, 86, 186, 75, 251>>,
    <<218, 231, 139, 42, 28, 4, 147, 6, 56, 0, 231, 195, 114, 3, 145, 168>>,
    <<32, 162, 165, 3, 37, 33, 197, 53, 38, 173, 226, 89, 83, 48, 85, 250>>,
    <<36, 81, 53, 166, 156, 124, 177, 161, 32, 207, 74, 113, 208, 190, 86, 34>>,
    <<175, 66, 101, 69, 115, 189, 95, 242, 200, 61, 51, 121, 107, 198, 129, 161>>,
    <<232, 152, 248, 212, 182, 207, 239, 118, 247, 180, 185, 58, 192, 192, 89, 157>>,
    <<142, 223, 156, 189, 14, 114, 168, 173, 33, 135, 132, 153, 161, 61, 73, 51>>,
    <<226, 32, 31, 224, 26, 149, 184, 21, 28, 177, 15, 64, 73, 36, 80, 172>>,
    <<192, 34, 10, 169, 208, 33, 157, 49, 234, 197, 120, 128, 197, 84, 133, 106>>,
    <<163, 195, 197, 142, 93, 126, 63, 102, 111, 141, 152, 175, 26, 83, 194, 46>>,
    <<189, 144, 199, 195, 90, 208, 252, 74, 154, 81, 178, 82, 166, 92, 213, 6>>,
    <<132, 151, 6, 207, 230, 1, 111, 134, 126, 224, 178, 227, 144, 95, 125, 80>>,
    <<35, 255, 105, 32, 194, 199, 124, 48, 32, 181, 198, 246, 223, 129, 129, 225>>,
    <<252, 78, 16, 43, 61, 155, 115, 203, 195, 156, 18, 196, 221, 23, 29, 205>>,
    <<214, 76, 164, 105, 104, 33, 159, 124, 85, 19, 12, 205, 211, 29, 149, 151>>,
    <<184, 82, 38, 231, 24, 40, 58, 141, 166, 176, 24, 9, 155, 208, 254, 247>>,
    <<186, 245, 232, 104, 165, 216, 171, 74, 252, 72, 72, 138, 163, 185, 117, 144>>,
    <<242, 103, 23, 182, 140, 107, 212, 32, 81, 50, 53, 16, 105, 239, 130, 246>>,
    <<251, 141, 236, 30, 215, 50, 237, 10, 92, 183, 229, 199, 74, 55, 95, 136>>,
    <<86, 154, 10, 236, 247, 223, 139, 34, 0, 12, 118, 191, 211, 68, 185, 74>>,
    <<67, 11, 217, 165, 118, 216, 74, 103, 101, 153, 99, 156, 109, 87, 78, 249>>,
    <<201, 109, 85, 2, 185, 253, 57, 242, 73, 19, 2, 91, 81, 39, 204, 193>>,
    <<165, 216, 208, 22, 34, 33, 26, 153, 13, 46, 8, 161, 43, 224, 214, 134>>,
    <<244, 14, 216, 89, 111, 8, 48, 50, 254, 4, 38, 9, 31, 218, 101, 211>>,
    <<184, 72, 66, 82, 184, 158, 234, 90, 135, 97, 25, 26, 156, 85, 120, 103>>,
    <<224, 49, 253, 200, 112, 54, 226, 18, 53, 98, 202, 155, 175, 27, 26, 30>>,
    <<124, 48, 211, 219, 111, 26, 40, 192, 138, 33, 251, 241, 188, 207, 119, 31>>,
    <<32, 31, 58, 139, 62, 95, 183, 30, 6, 35, 17, 9, 84, 145, 217, 250>>,
    <<212, 160, 199, 197, 255, 14, 136, 243, 17, 103, 169, 16, 133, 83, 159, 221>>,
    <<5, 236, 229, 208, 5, 80, 44, 33, 29, 87, 197, 2, 143, 204, 225, 126>>,
    <<148, 122, 21, 167, 114, 72, 195, 128, 9, 37, 143, 67, 88, 19, 70, 167>>,
    <<185, 148, 84, 80, 246, 162, 207, 62, 186, 207, 119, 110, 38, 72, 9, 182>>,
    <<64, 243, 198, 11, 84, 32, 46, 14, 208, 68, 49, 70, 75, 250, 168, 119>>,
    <<198, 71, 199, 145, 36, 217, 96, 46, 41, 65, 75, 215, 166, 12, 125, 247>>,
    <<41, 208, 152, 79, 3, 253, 44, 206, 47, 87, 177, 112, 5, 171, 142, 14>>,
    <<159, 111, 194, 47, 217, 201, 126, 104, 237, 164, 231, 7, 230, 32, 8, 73>>,
    <<242, 59, 228, 247, 79, 130, 109, 104, 17, 45, 93, 72, 11, 44, 210, 201>>,
    <<143, 236, 38, 81, 28, 168, 114, 108, 41, 115, 190, 253, 242, 11, 10, 167>>,
    <<5, 36, 223, 37, 90, 72, 37, 78, 138, 122, 57, 162, 13, 115, 40, 227>>,
    <<88, 247, 93, 41, 179, 103, 92, 173, 248, 244, 242, 91, 225, 39, 88, 56>>,
    <<28, 139, 181, 38, 51, 208, 134, 30, 33, 55, 169, 132, 4, 139, 210, 36>>,
    <<237, 238, 84, 79, 158, 124, 126, 181, 45, 231, 115, 107, 36, 178, 149, 172>>,
    <<140, 118, 210, 189, 47, 81, 206, 223, 154, 146, 73, 203, 54, 133, 228, 196>>,
    <<48, 229, 24, 21, 209, 66, 194, 75, 18, 208, 177, 95, 133, 28, 248, 191>>,
    <<180, 116, 73, 195, 181, 199, 139, 17, 92, 143, 175, 46, 158, 202, 253, 53>>,
    <<217, 127, 105, 81, 163, 20, 141, 197, 46, 242, 1, 213, 15, 54, 99, 136>>,
    <<104, 107, 140, 186, 240, 14, 133, 216, 249, 140, 100, 153, 4, 29, 47, 25>>,
    <<157, 140, 240, 97, 145, 85, 73, 211, 65, 25, 143, 104, 135, 229, 3, 216>>,
    <<120, 217, 221, 26, 8, 244, 110, 170, 197, 119, 107, 59, 215, 54, 47, 125>>,
    <<49, 6, 11, 236, 121, 182, 215, 168, 178, 173, 91, 89, 170, 116, 171, 203>>,
    <<110, 67, 73, 124, 254, 10, 62, 212, 7, 177, 17, 107, 31, 193, 25, 213>>,
    <<250, 241, 216, 236, 249, 126, 231, 140, 192, 1, 139, 16, 179, 228, 40, 213>>,
    <<152, 160, 252, 124, 84, 210, 226, 30, 111, 138, 20, 159, 32, 150, 90, 97>>,
    <<197, 160, 220, 232, 155, 81, 141, 47, 10, 105, 27, 244, 94, 235, 6, 20>>,
    <<251, 59, 102, 168, 198, 87, 194, 19, 14, 56, 15, 103, 101, 193, 33, 30>>,
    <<164, 198, 202, 81, 147, 52, 251, 208, 110, 102, 227, 162, 215, 175, 83, 137>>,
    <<75, 101, 19, 52, 36, 60, 137, 13, 209, 235, 239, 146, 70, 104, 194, 138>>,
    <<37, 81, 209, 57, 143, 226, 187, 24, 199, 164, 33, 141, 39, 134, 128, 221>>,
    <<135, 14, 186, 153, 51, 152, 213, 242, 182, 23, 52, 52, 97, 198, 253, 157>>,
    <<77, 210, 190, 162, 95, 170, 102, 77, 255, 20, 51, 74, 197, 94, 195, 75>>,
    <<50, 15, 208, 133, 193, 135, 227, 156, 77, 132, 22, 81, 48, 119, 5, 57>>,
    <<215, 71, 86, 219, 250, 196, 34, 49, 10, 61, 163, 131, 70, 31, 155, 177>>,
    <<105, 106, 10, 113, 183, 80, 83, 26, 124, 99, 78, 169, 126, 67, 71, 206>>,
    <<126, 79, 147, 230, 58, 197, 34, 118, 25, 104, 77, 12, 184, 1, 26, 250>>,
    <<182, 37, 152, 167, 195, 33, 197, 111, 199, 17, 10, 42, 204, 188, 228, 133>>,
    <<15, 218, 53, 231, 198, 116, 60, 204, 140, 198, 148, 119, 108, 116, 14, 198>>,
    <<66, 169, 84, 35, 24, 108, 162, 40, 221, 231, 202, 56, 160, 192, 116, 237>>,
    <<189, 182, 202, 117, 42, 46, 138, 243, 56, 110, 219, 251, 200, 91, 177, 196>>,
    <<137, 153, 167, 2, 90, 221, 251, 75, 254, 225, 20, 71, 37, 138, 92, 235>>,
    <<188, 132, 110, 149, 102, 238, 251, 9, 18, 57, 136, 156, 134, 37, 155, 75>>,
    <<116, 240, 30, 174, 178, 156, 239, 255, 133, 44, 44, 207, 94, 159, 27, 74>>,
    <<134, 66, 32, 210, 215, 128, 237, 193, 96, 57, 213, 103, 215, 133, 87, 187>>,
    <<86, 142, 137, 38, 50, 48, 118, 99, 131, 239, 150, 192, 40, 246, 227, 102>>,
    <<124, 198, 189, 55, 124, 117, 115, 214, 20, 7, 153, 57, 113, 249, 149, 122>>,
    <<89, 73, 98, 192, 52, 135, 30, 32, 230, 230, 8, 169, 12, 96, 243, 67>>,
    <<172, 166, 200, 194, 88, 78, 191, 81, 149, 91, 146, 119, 83, 6, 80, 211>>,
    <<192, 81, 160, 181, 127, 243, 208, 11, 86, 223, 3, 173, 53, 32, 101, 0>>,
    <<0, 201, 219, 73, 113, 23, 153, 171, 76, 78, 79, 21, 8, 181, 217, 215>>,
    <<96, 170, 246, 231, 147, 116, 21, 108, 122, 198, 220, 163, 207, 203, 49, 249>>,
    <<177, 181, 158, 37, 210, 67, 137, 60, 170, 94, 188, 59, 157, 219, 200, 83>>,
    <<252, 16, 99, 225, 188, 179, 95, 13, 82, 205, 206, 174, 70, 38, 195, 155>>,
    <<29, 64, 168, 231, 19, 196, 64, 126, 84, 227, 183, 147, 21, 12, 238, 85>>,
    <<215, 171, 148, 187, 233, 196, 95, 145, 139, 116, 97, 147, 137, 175, 122, 99>>,
    <<103, 146, 203, 156, 130, 145, 31, 115, 245, 51, 220, 146, 230, 236, 17, 180>>,
    <<219, 3, 244, 69, 238, 250, 233, 132, 82, 95, 21, 220, 46, 191, 140, 182>>,
    <<182, 76, 229, 34, 26, 71, 98, 160, 48, 41, 217, 249, 131, 33, 37, 210>>,
    <<65, 23, 249, 129, 47, 254, 180, 137, 36, 219, 213, 68, 216, 95, 235, 131>>,
    <<184, 36, 201, 114, 121, 212, 121, 87, 72, 144, 26, 1, 117, 88, 76, 40>>,
    <<44, 63, 205, 38, 3, 220, 102, 60, 140, 126, 40, 147, 62, 197, 10, 119>>,
    <<56, 98, 9, 166, 204, 64, 146, 57, 96, 198, 100, 105, 4, 163, 110, 169>>,
    <<65, 72, 243, 106, 157, 19, 108, 57, 21, 142, 48, 252, 218, 146, 86, 233>>,
    <<130, 235, 130, 161, 209, 156, 111, 166, 167, 95, 43, 71, 3, 110, 228, 123>>,
    <<79, 210, 14, 145, 105, 104, 136, 21, 189, 69, 197, 0, 245, 202, 75, 41>>,
    <<238, 254, 223, 27, 227, 34, 185, 205, 185, 93, 3, 20, 241, 210, 168, 156>>,
    <<9, 201, 112, 34, 73, 153, 145, 245, 225, 46, 239, 213, 173, 35, 79, 85>>,
    <<29, 186, 27, 231, 46, 143, 131, 186, 167, 94, 82, 169, 57, 171, 46, 37>>,
    <<214, 91, 206, 221, 80, 34, 181, 211, 100, 140, 41, 64, 111, 37, 160, 166>>,
    <<115, 249, 5, 230, 141, 168, 32, 192, 231, 173, 95, 173, 43, 32, 66, 71>>,
    <<109, 61, 183, 95, 130, 106, 111, 47, 58, 121, 7, 67, 19, 172, 106, 67>>,
    <<225, 148, 36, 158, 132, 163, 131, 171, 7, 232, 242, 110, 51, 230, 105, 127>>,
    <<85, 66, 49, 24, 118, 60, 130, 191, 25, 111, 106, 35, 252, 10, 137, 23>>,
    <<195, 245, 241, 112, 52, 52, 44, 46, 55, 47, 6, 106, 84, 109, 16, 181>>,
    <<248, 251, 216, 195, 186, 179, 120, 144, 138, 181, 41, 113, 103, 108, 80, 38>>,
    <<180, 64, 125, 99, 126, 175, 159, 203, 136, 110, 48, 240, 29, 188, 118, 192>>,
    <<163, 62, 127, 233, 58, 250, 205, 42, 246, 250, 38, 90, 228, 74, 125, 26>>,
    <<171, 135, 125, 241, 196, 171, 23, 192, 250, 74, 72, 109, 131, 183, 117, 187>>,
    <<99, 232, 131, 253, 100, 199, 60, 209, 55, 64, 157, 174, 47, 65, 252, 0>>,
    <<98, 205, 238, 165, 200, 130, 62, 163, 68, 29, 60, 116, 182, 123, 130, 233>>,
    <<78, 153, 153, 221, 154, 121, 206, 255, 203, 217, 30, 74, 86, 154, 100, 253>>,
    <<75, 44, 100, 27, 197, 150, 181, 250, 236, 246, 63, 254, 250, 63, 48, 141>>,
    <<33, 105, 249, 7, 222, 120, 19, 94, 202, 223, 186, 242, 250, 165, 66, 242>>,
    <<212, 10, 16, 74, 220, 231, 192, 71, 190, 134, 23, 32, 185, 205, 250, 22>>,
    <<213, 251, 51, 209, 116, 52, 214, 250, 211, 169, 113, 74, 182, 127, 211, 15>>,
    <<165, 232, 215, 119, 83, 181, 218, 81, 144, 150, 242, 24, 152, 84, 24, 45>>,
    <<77, 164, 148, 130, 233, 250, 162, 127, 70, 216, 145, 110, 57, 74, 211, 194>>,
    <<7, 194, 254, 118, 152, 61, 32, 18, 8, 129, 192, 196, 202, 182, 193, 33>>,
    <<61, 198, 244, 205, 233, 99, 159, 207, 195, 3, 88, 1, 196, 64, 83, 121>>,
    <<121, 226, 119, 184, 6, 2, 29, 9, 134, 198, 102, 40, 168, 41, 92, 159>>,
    <<30, 196, 134, 38, 111, 29, 48, 62, 199, 31, 217, 79, 209, 155, 229, 56>>,
    <<128, 112, 140, 53, 161, 68, 182, 38, 131, 155, 94, 148, 127, 69, 165, 207>>,
    <<108, 73, 35, 253, 9, 117, 138, 77, 247, 160, 4, 177, 71, 69, 247, 248>>,
    <<111, 46, 217, 27, 148, 209, 229, 197, 250, 127, 216, 193, 88, 255, 24, 61>>,
    <<170, 116, 192, 246, 150, 135, 231, 183, 157, 160, 217, 128, 53, 78, 69, 191>>,
    <<87, 204, 214, 129, 82, 1, 32, 208, 245, 106, 95, 61, 171, 16, 128, 253>>,
    <<135, 188, 208, 17, 46, 238, 14, 164, 58, 66, 33, 144, 75, 143, 142, 200>>,
    <<44, 23, 181, 189, 236, 34, 85, 141, 120, 174, 109, 241, 75, 251, 21, 63>>,
    <<98, 191, 85, 72, 38, 188, 147, 253, 29, 43, 4, 191, 76, 7, 79, 4>>,
    <<239, 199, 213, 5, 59, 31, 243, 205, 135, 37, 115, 113, 230, 8, 140, 169>>,
    <<148, 198, 58, 232, 248, 118, 12, 72, 196, 223, 151, 245, 61, 244, 246, 227>>,
    <<39, 10, 151, 142, 156, 158, 191, 117, 44, 177, 101, 19, 150, 181, 186, 252>>,
    <<65, 179, 23, 208, 180, 1, 170, 24, 82, 29, 152, 43, 107, 168, 237, 40>>,
    <<76, 72, 40, 245, 224, 125, 148, 100, 123, 237, 182, 45, 93, 69, 240, 218>>,
    <<180, 158, 110, 179, 35, 64, 172, 232, 156, 188, 221, 211, 15, 154, 253, 191>>,
    <<207, 139, 129, 63, 224, 143, 165, 92, 73, 101, 135, 3, 145, 119, 94, 150>>,
    <<246, 91, 205, 149, 140, 255, 201, 144, 193, 210, 201, 140, 51, 217, 179, 15>>,
    <<102, 157, 149, 110, 224, 136, 35, 104, 70, 197, 239, 206, 218, 19, 92, 210>>,
    <<140, 196, 52, 248, 188, 80, 23, 21, 197, 95, 152, 9, 8, 131, 237, 158>>,
    <<19, 173, 93, 119, 139, 251, 189, 159, 148, 249, 73, 202, 127, 216, 34, 118>>,
    <<7, 108, 69, 177, 238, 19, 147, 181, 59, 253, 25, 117, 213, 140, 224, 108>>,
    <<157, 128, 35, 176, 15, 229, 212, 186, 34, 135, 242, 223, 41, 243, 11, 213>>,
    <<250, 199, 178, 204, 81, 85, 80, 13, 196, 98, 232, 93, 16, 92, 132, 71>>,
    <<44, 200, 86, 113, 62, 120, 58, 62, 177, 25, 117, 254, 231, 125, 238, 167>>,
    <<81, 76, 110, 220, 219, 41, 90, 2, 241, 35, 95, 25, 234, 49, 63, 158>>,
    <<124, 135, 199, 26, 236, 255, 208, 121, 16, 170, 126, 185, 160, 24, 209, 148>>,
    <<46, 253, 55, 25, 135, 45, 221, 221, 55, 109, 137, 122, 22, 133, 150, 245>>,
    <<54, 21, 9, 122, 32, 22, 77, 60, 117, 216, 123, 204, 157, 148, 80, 2>>,
    <<117, 37, 14, 16, 91, 208, 73, 130, 239, 17, 16, 86, 183, 155, 191, 81>>,
    <<13, 180, 127, 57, 82, 139, 161, 149, 205, 248, 255, 196, 197, 146, 145, 20>>,
    <<145, 30, 98, 152, 239, 94, 74, 44, 4, 52, 149, 51, 187, 13, 120, 43>>,
    <<228, 160, 120, 198, 208, 243, 238, 163, 203, 155, 17, 85, 198, 63, 222, 237>>,
    <<225, 14, 18, 242, 156, 212, 188, 86, 137, 152, 23, 186, 235, 244, 42, 187>>,
    <<124, 215, 223, 33, 225, 232, 101, 84, 147, 11, 16, 104, 3, 107, 198, 104>>,
    <<85, 113, 5, 212, 188, 189, 196, 209, 100, 17, 18, 238, 102, 35, 22, 201>>,
    <<235, 41, 44, 213, 203, 19, 41, 124, 59, 3, 6, 128, 18, 131, 220, 92>>,
    <<12, 151, 160, 32, 203, 227, 69, 127, 53, 3, 225, 97, 0, 67, 102, 126>>,
    <<204, 149, 167, 69, 64, 81, 36, 255, 38, 14, 138, 49, 244, 236, 52, 229>>,
    <<35, 90, 206, 239, 63, 174, 213, 6, 75, 64, 6, 169, 229, 53, 185, 167>>,
    <<183, 60, 132, 202, 199, 14, 119, 40, 117, 239, 217, 33, 218, 7, 14, 147>> >>

Md5(bytes) == Md5Table[from_be_bytes(bytes)]

ID_LEN == 10

MintId_OneChar(i) == Take(hex_encode(Md5(to_be_bytes(i))), 1)

MintId(i) == Take(hex_encode(Md5(to_be_bytes(i))), ID_LEN)

(***************************************************************************)
(* Results.                                                                *)
(***************************************************************************)
Ok(v) == [ok |-> TRUE, val |-> v]
Err(e) == [ok |-> FALSE, err |-> e]
None == [some |-> FALSE]
Some(v) == [some |-> TRUE, val |-> v]

NoReq == [method |-> "NONE"]
NoLoc == [caller |-> "none"]
NoResp == [out |-> [ok |-> FALSE, err |-> "pending"]]

(***************************************************************************)
(* Generator (src/src/id/generate.rs).                                     *)
(***************************************************************************)
step == 10

\* "update id_generate set id_value=id_value+$1 ... returning id_value":
\* one atomic statement of the store.
UpdateIdValue_HalfStep(value, by) == value + (by \div 2)

UpdateIdValue(value, by) == value + by

StartId_Short(max_id, by) == max_id - by + 2

StartId_OffByOne(max_id, by) == max_id - by

StartId(max_id, by) == max_id - by + 1

\* The ids of start_id..=max_id, ascending.
MintRange(start_id, max_id) ==
    [k \in 1..(max_id - start_id + 1) |-> MintId(start_id + k - 1)]

IntRange(start_id, max_id) ==
    [k \in 1..(max_id - start_id + 1) |-> start_id + k - 1]

TotalReturned == LET RECURSIVE Sum(_)
                     Sum(g) == IF g = 0 THEN 0 ELSE Len(returned[g]) + Sum(g - 1)
                 IN Sum(NumProcs)

InFlight == Cardinality({t \in Tasks : pc[t] \in {"get_id_lock", "get_id_db"}})

\* The value of the counter row before the first request (db: id_generate).
InitialCounters == {7}

\* The updates the database applied whose value no generator received.
Unanswered ==
    LET c0 == CHOOSE c \in InitialCounters : c <= id_value
    IN  (id_value - c0) \div step - Len(refill_log)

(***************************************************************************)
(* The end of a task: the inner future resolves and                        *)
(* RequestIdFuture::poll (src/src/http/request_id.rs:23-33) stamps the     *)
(* response; an error passes through unchanged.                            *)
(***************************************************************************)
RID_HEADER == "x-image-bed-request-id"

HeaderInsert(headers, name, value) == [headers EXCEPT ![name] = <<value>>]

HeaderAppend(headers, name, value) == [headers EXCEPT ![name] = @ \o <<value>>]

HeaderGet(headers, name) ==
    IF headers[name] = <<>> THEN None ELSE Some(headers[name][1])

RequestIdFuture_poll_NoStamp(rid, result) == result

RequestIdFuture_poll_AnswersErrors(rid, result) ==
    IF result.ok
    THEN Ok([result.val EXCEPT !.headers = HeaderInsert(@, RID_HEADER, rid)])
    ELSE Ok([status |-> 500,
             headers |-> [n \in {RID_HEADER} |-> <<rid>>],
             body |-> <<>>])

RequestIdFuture_poll(rid, result) ==
    IF result.ok
    THEN Ok([result.val EXCEPT !.headers = HeaderInsert(@, RID_HEADER, rid)])
    ELSE result

\* size_limit.rs:69: the inner service's result goes up as it is (the
\* error boxed).
SizeLimitService_result(result) == result

\* The task ends with the result of Handle's future: resp keeps the final
\* outcome and, as `inner`, what Handle's future gave.
RespondAs(t, rid, result) ==
    /\ pc' = [pc EXCEPT ![t] = "done"]
    /\ resp' = [resp EXCEPT ![t] =
           [out |-> RequestIdFuture_poll(rid, SizeLimitService_result(result)),
            inner |-> Some(result)]]

Respond(t, result) == RespondAs(t, request_id[t], result)

\* The task ends in SizeLimitService itself, Handle never called.
GuardRespondAs(t, rid, result) ==
    /\ pc' = [pc EXCEPT ![t] = "done"]
    /\ resp' = [resp EXCEPT ![t] =
           [out |-> RequestIdFuture_poll(rid, result), inner |-> None]]

(***************************************************************************)
(* Generator::get_id (src/src/id/generate.rs:43-78).                       *)
(***************************************************************************)
Today == <<"2024-03", "2024-04", "2024-05", "2024-06">>

\* Local::today().format("%Y-%m"): each tick of the model's clock is a day
\* on which the month changes.
BucketOf(time) == Today[time + 1]

get_id_return_SkipsInsert(t, result) ==
    IF loc[t].caller = "handle_upload"
    THEN IF result.ok
         THEN /\ loc' = [loc EXCEPT ![t] =
                        [@ EXCEPT !.resource_id = result.val,
                                  !.bucket = BucketOf(now),
                                  !.unix_timestamp = now]]
              /\ pc' = [pc EXCEPT ![t] = "upload_put"]
              /\ resp' = resp
         ELSE /\ Respond(t, Err(result.err))
              /\ loc' = loc
    ELSE /\ loc' = [loc EXCEPT ![t] = [caller |-> "direct", ret |-> result]]

\* What the caller of get_id does with its result, up to its next await.
\* handle_upload (handle.rs:300-313): `?`, the bucket of today, and
\* insert_resource's timestamp, taken before its query is awaited.
\* A direct caller (generate.rs:89-105) keeps the result.
get_id_return(t, result) ==
    IF loc[t].caller = "handle_upload"
    THEN IF result.ok
         THEN /\ loc' = [loc EXCEPT ![t] =
                        [@ EXCEPT !.resource_id = result.val,
                                  !.bucket = BucketOf(now),
                                  !.unix_timestamp = now]]
              /\ pc' = [pc EXCEPT ![t] = "upload_insert"]
              /\ resp' = resp
         ELSE /\ Respond(t, Err(result.err))
              /\ loc' = loc
    ELSE /\ loc' = [loc EXCEPT ![t] = [caller |-> "direct", ret |-> result]]
         /\ pc' = [pc EXCEPT ![t] = "idle"]
         /\ resp' = resp

\* generate.rs:57-60: the error path of the counter update: `?` returns the
\* error; dropping the guard releases the lock.
get_id_db_error_KeepsLock(t, g) ==
    /\ mutex' = mutex
    /\ UNCHANGED <<id_list, id_value, refill_log>>
    /\ returned' = returned
    /\ get_id_return(t, Err("db"))

get_id_db_error(t, g) ==
    /\ mutex' = [mutex EXCEPT ![g] = 0]
    /\ UNCHANGED <<id_list, id_value, refill_log>>
    /\ returned' = returned
    /\ get_id_return(t, Err("db"))

get_id_lock_NoMutex(t) ==
    LET g == proc[t] IN
    /\ pc[t] = "get_id_lock"
    /\ IF id_list[g] # <<>>
       THEN /\ id_list' = [id_list EXCEPT ![g] = Tail(@)]
            /\ mutex' = mutex
            /\ returned' = [returned EXCEPT ![g] = Append(@, Head(id_list[g]))]
            /\ get_id_return(t, Ok(Head(id_list[g])))
            /\ calls' = calls
       ELSE /\ mutex' = [mutex EXCEPT ![g] = t]
            /\ pc' = [pc EXCEPT ![t] = "get_id_db"]
            /\ calls' = [calls EXCEPT ![t] = Append(@, "update_id_generate")]
            /\ UNCHANGED <<id_list, returned, loc, resp>>
    /\ UNCHANGED <<resources, id_value, blobs, now, proc, max_body_size,
                   req, buf, request_id, refill_log, seen>>

\* generate.rs:44-48: the lock is taken; an id in the queue is popped and
\* returned (the guard drops); otherwise the counter update is awaited with
\* the lock held.
get_id_lock(t) ==
    LET g == proc[t] IN
    /\ pc[t] = "get_id_lock"
    /\ mutex[g] = 0
    /\ IF id_list[g] # <<>>
       THEN /\ id_list' = [id_list EXCEPT ![g] = Tail(@)]
            /\ mutex' = mutex
            /\ returned' = [returned EXCEPT ![g] = Append(@, Head(id_list[g]))]
            /\ get_id_return(t, Ok(Head(id_list[g])))
            /\ calls' = calls
       ELSE /\ mutex' = [mutex EXCEPT ![g] = t]
            /\ pc' = [pc EXCEPT ![t] = "get_id_db"]
            /\ calls' = [calls EXCEPT ![t] = Append(@, "update_id_generate")]
            /\ UNCHANGED <<id_list, returned, loc, resp>>
    /\ UNCHANGED <<resources, id_value, blobs, now, proc, max_body_size,
                   req, buf, request_id, refill_log, seen>>

get_id_db_KeepsHead(t) ==
    LET g == proc[t] IN
    /\ pc[t] = "get_id_db"
    /\ \/ get_id_db_error(t, g)
       \/ LET max_id == UpdateIdValue(id_value, step)
              start_id == StartId(max_id, step)
              ids == id_list[g] \o MintRange(start_id, max_id)
          IN /\ id_value' = max_id
             /\ refill_log' = Append(refill_log,
                    [proc |-> g, before |-> id_value, max_id |-> max_id,
                     ints |-> IntRange(start_id, max_id)])
             /\ id_list' = [id_list EXCEPT ![g] = ids]
             /\ mutex' = [mutex EXCEPT ![g] = 0]
             /\ returned' = [returned EXCEPT ![g] = Append(@, Head(ids))]
             /\ get_id_return(t, Ok(Head(ids)))
    /\ UNCHANGED <<resources, blobs, now, proc, max_body_size,
                   req, buf, request_id, calls, seen>>

\* generate.rs:50-77: the counter update answers.
get_id_db(t) ==
    LET g == proc[t] IN
    /\ pc[t] = "get_id_db"
    /\ \/ get_id_db_error(t, g)
       \/ LET max_id == UpdateIdValue(id_value, step)
              start_id == StartId(max_id, step)
              ids == id_list[g] \o MintRange(start_id, max_id)
          IN /\ id_value' = max_id
             /\ refill_log' = Append(refill_log,
                    [proc |-> g, before |-> id_value, max_id |-> max_id,
                     ints |-> IntRange(start_id, max_id)])
             /\ id_list' = [id_list EXCEPT ![g] = Tail(ids)]
             /\ mutex' = [mutex EXCEPT ![g] = 0]
             /\ returned' = [returned EXCEPT ![g] = Append(@, Head(ids))]
             /\ get_id_return(t, Ok(Head(ids)))
    /\ UNCHANGED <<resources, blobs, now, proc, max_body_size,
                   req, buf, request_id, calls, seen>>


\* generate.rs:50-60: the database applies the update and its answer does
\* not reach the caller (the connection fails after the commit): fetch_one
\* gives the error, as when the update was not applied.
get_id_db_lost(t) ==
    LET g == proc[t] IN
    /\ pc[t] = "get_id_db"
    /\ Unanswered < MaxLost
    /\ id_value' = UpdateIdValue(id_value, step)
    /\ mutex' = [mutex EXCEPT ![g] = 0]
    /\ get_id_return(t, Err("db"))
    /\ UNCHANGED <<resources, blobs, now, proc, max_body_size, req, buf,
                   request_id, calls, seen, id_list, refill_log, returned>>

\* A caller of get_id outside a request (generate.rs:89-105).
direct_get_id(t) ==
    /\ pc[t] = "idle"
    /\ TotalReturned + InFlight + step * Unanswered < MaxCalls
    /\ pc' = [pc EXCEPT ![t] = "get_id_lock"]
    /\ loc' = [loc EXCEPT ![t] = [caller |-> "direct"]]
    /\ calls' = [calls EXCEPT ![t] = <<"get_id">>]
    /\ UNCHANGED <<resources, id_value, blobs, now, id_list, mutex, proc,
                   max_body_size, req, buf, resp, request_id, refill_log,
                   returned, seen>>

(***************************************************************************)
(* Helpers of the handlers (src/src/http/handle.rs).                       *)
(***************************************************************************)
UPLOAD_PATH == <<"/", "u", "p", "l", "o", "a", "d">>
GET_PATH == <<"/", "g", "e", "t">>
HTTPS == <<"h", "t", "t", "p", "s", ":", "/", "/">>
BYTES_EQ == <<"b", "y", "t", "e", "s", "=">>

HeaderNames == {"host", "range", RID_HEADER,
                "content-type", "content-range", "content-length"}

NoHeaders == [n \in HeaderNames |-> <<>>]

Response(status, headers, body) ==
    [status |-> status, headers |-> headers, body |-> body]

\* str::replace(pat, ""): every non-overlapping match, left to right.
RECURSIVE remove_all(_, _)
remove_all(s, pat) ==
    IF s = <<>> THEN <<>>
    ELSE IF starts_with(s, pat)
         THEN remove_all(SubSeq(s, Len(pat) + 1, Len(s)), pat)
         ELSE <<Head(s)>> \o remove_all(Tail(s), pat)

\* path.strip_prefix('/').unwrap_or(&path)
strip_slash(s) == IF s # <<>> /\ Head(s) = "/" THEN Tail(s) ELSE s

\* str::split(sep): the pieces between the separators.
RECURSIVE split(_, _)
split(s, sep) ==
    IF \E i \in 1..Len(s) : s[i] = sep
    THEN LET i == CHOOSE i \in 1..Len(s) :
                      s[i] = sep /\ \A j \in 1..(i - 1) : s[j] # sep
         IN <<SubSeq(s, 1, i - 1)>> \o split(SubSeq(s, i + 1, Len(s)), sep)
    ELSE <<s>>

Digits == <<"0", "1", "2", "3", "4", "5", "6", "7", "8", "9">>

DigitVal(c) == (CHOOSE d \in 1..10 : Digits[d] = c) - 1

IsDigit(c) == \E d \in 1..10 : Digits[d] = c

RECURSIVE decimal(_)
decimal(s) == IF s = <<>> THEN 0
              ELSE decimal(SubSeq(s, 1, Len(s) - 1)) * 10 + DigitVal(s[Len(s)])

\* str::parse::<u64>().ok(): an optional '+', then one digit or more (the
\* model's numerals are too short to overflow).
parse_u64(s) ==
    LET digits == IF s # <<>> /\ Head(s) = "+" THEN Tail(s) ELSE s
    IN IF digits # <<>> /\ \A i \in 1..Len(digits) : IsDigit(digits[i])
       THEN Some(decimal(digits))
       ELSE None

\* HeaderValue::to_str: only visible ASCII is a str; the model's one other
\* character is the byte 0x80.
NON_ASCII == "\\x80"

to_str_ok(value) == \A i \in 1..Len(value) : value[i] # NON_ASCII

parse_range_SplitOnce(headers) ==
    LET range == HeaderGet(headers, "range")
        absent == [start |-> None, end |-> None]
    IN IF ~range.some \/ ~to_str_ok(range.val) THEN absent
       ELSE IF ~starts_with(range.val, BYTES_EQ) THEN absent
       ELSE LET bytes == remove_all(range.val, BYTES_EQ)
                first == split(bytes, "-")[1]
            IN IF Len(first) = Len(bytes) THEN absent
               ELSE [start |-> parse_u64(first),
                     end |-> parse_u64(SubSeq(bytes, Len(first) + 2, Len(bytes)))]

\* handle.rs:355-374 and 430-449.
parse_range(headers) ==
    LET range == HeaderGet(headers, "range")
        absent == [start |-> None, end |-> None]
    IN IF ~range.some \/ ~to_str_ok(range.val) THEN absent
       ELSE IF ~starts_with(range.val, BYTES_EQ) THEN absent
       ELSE LET start_end == split(remove_all(range.val, BYTES_EQ), "-")
            IN IF Len(start_end) # 2 THEN absent
               ELSE [start |-> parse_u64(start_end[1]),
                     end |-> parse_u64(start_end[2])]

\* Sha256 cannot be computed here; the stand-in digest (the length, then
\* the bytes) is collision-free, as SHA-256 is taken to be.
Sha256Hex(data) == hex_encode(<<Len(data)>> \o data)

\* http::uri::Authority: not empty, and none of the characters that end or
\* break an authority.
valid_authority(host) ==
    /\ host # <<>>
    /\ \A i \in 1..Len(host) : host[i] \notin {" ", "/", "?", "#", NON_ASCII}

resource_uri_Domain(host, id) ==
    <<"h", "t", "t", "p", "s", ":", "/", "/", "i", ".", "b">> \o GET_PATH \o <<"/">> \o id

\* handle.rs:322-327.
resource_uri(host, id) == HTTPS \o host \o GET_PATH \o <<"/">> \o id

\* Uri::from_str(url).path() of such a uri: what follows the authority.
uri_path(url) ==
    LET rest == SubSeq(url, Len(HTTPS) + 1, Len(url))
    IN IF \E i \in 1..Len(rest) : rest[i] = "/"
       THEN SubSeq(rest, CHOOSE i \in 1..Len(rest) :
                            rest[i] = "/" /\ \A j \in 1..(i - 1) : rest[j] # "/",
                   Len(rest))
       ELSE <<"/">>

\* Handle::call (handle.rs:247-270).
Route_HeadAsGet(method, path) ==
    IF starts_with(path, UPLOAD_PATH) /\ method = "POST" THEN "handle_upload"
    ELSE IF starts_with(path, GET_PATH) /\ method \in {"GET", "HEAD"} THEN "handle_get"
    ELSE "bad_request"

Route_IgnoresMethod(method, path) ==
    IF starts_with(path, UPLOAD_PATH) THEN "handle_upload"
    ELSE IF starts_with(path, GET_PATH) THEN "handle_get"
    ELSE "bad_request"

Route(method, path) ==
    IF starts_with(path, UPLOAD_PATH) /\ method = "POST" THEN "handle_upload"
    ELSE IF starts_with(path, GET_PATH) /\ method = "GET" THEN "handle_get"
    ELSE IF starts_with(path, GET_PATH) /\ method = "HEAD" THEN "handle_head"
    ELSE "bad_request"

\* handle.rs:342-343 and 417-418.
path_resource_id(path) == strip_slash(remove_all(path, GET_PATH))

\* Resource (db/mod.rs:12-18): the row without its hash column.
Resource(row) ==
    [id |-> row.id, bucket |-> row.bucket, create_time |-> row.create_time,
     resource_size |-> row.resource_size]

\* handle.rs:322-334: the uri is built, then the response.
upload_response(host, resource) ==
    IF valid_authority(host)
    THEN Ok(Response(200,
                     [NoHeaders EXCEPT !["content-type"] =
                          <<"text/plain", "charset=utf-8">>],
                     resource_uri(host, resource.id)))
    ELSE Err("uri")

(***************************************************************************)
(* The pipeline of one request: RequestIdService::call                     *)
(* (request_id.rs:66-82), then SizeLimitService::call                      *)
(* (size_limit.rs:40-71), then Handle::call.                               *)
(***************************************************************************)
DOMAIN_NAME == <<"i", ".", "b">>

Done == {t \in Tasks : pc[t] = "done"}

RECURSIVE Concat(_)
Concat(chunks) ==
    IF chunks = <<>> THEN <<>> ELSE Head(chunks) \o Concat(Tail(chunks))

\* The uploads answered 200 so far.
AnsweredUploads ==
    {v \in Done : /\ loc[v].caller = "handle_upload"
                  /\ resp[v].out.ok
                  /\ resp[v].out.val.status = 200}

\* The retrieval urls answered so far to uploads of the bytes with this hash.
Answered(hash) ==
    {resp[u].out.val.body : u \in {v \in AnsweredUploads : loc[v].hash_result = hash}}

\* The retrieval urls answered so far.
AnsweredUrls == {resp[u].out.val.body : u \in AnsweredUploads}

\* size_limit.rs:56: buf.len() > max_size.
TooLarge_AtLimit(len, max_size) == len >= max_size

TooLarge_Unlimited(len, max_size) == FALSE

TooLarge_OffByOne(len, max_size) == len > max_size + 1

TooLarge(len, max_size) == len > max_size

PAYLOAD_TOO_LARGE == Ok(Response(413, NoHeaders, <<>>))

\* handle_upload up to its first await (handle.rs:279-297).
handle_upload_start(t, r, rid) ==
    LET host == HeaderGet(r.headers, "host") IN
    IF host.some /\ ~to_str_ok(host.val)
    THEN /\ RespondAs(t, rid, Err("to_str"))
         /\ loc' = [loc EXCEPT ![t] = [caller |-> "handle_upload"]]
    ELSE /\ loc' = [loc EXCEPT ![t] =
                [caller |-> "handle_upload",
                 host |-> IF host.some THEN host.val ELSE DOMAIN_NAME,
                 data |-> r.body,
                 hash_result |-> Sha256Hex(r.body),
                 fetched |-> "pending",
                 resource_id |-> <<>>,
                 bucket |-> "",
                 unix_timestamp |-> 0]]
         /\ pc' = [pc EXCEPT ![t] = "upload_lookup"]
         /\ resp' = resp

\* Handle::call (handle.rs:247-270) on the request the guard forwards, up
\* to the handler's first await.
Handle_call(t, r, rid) ==
    LET route == Route(r.method, r.path) IN
    /\ calls' = [calls EXCEPT ![t] = Append(@, route)]
    /\ CASE route = "handle_upload" -> handle_upload_start(t, r, rid)
         [] route = "handle_get" ->
              /\ loc' = [loc EXCEPT ![t] =
                     [caller |-> "handle_get", fetched |-> "pending",
                      resource_id |-> path_resource_id(r.path)]]
              /\ pc' = [pc EXCEPT ![t] = "get_lookup"]
              /\ resp' = resp
         [] route = "handle_head" ->
              /\ loc' = [loc EXCEPT ![t] =
                     [caller |-> "handle_head", fetched |-> "pending",
                      resource_id |-> path_resource_id(r.path)]]
              /\ pc' = [pc EXCEPT ![t] = "head_lookup"]
              /\ resp' = resp
         [] OTHER ->
              /\ RespondAs(t, rid, Ok(Response(400, NoHeaders, <<>>)))
              /\ loc' = [loc EXCEPT ![t] = [caller |-> "Handle"]]

\* RequestIdService::call (request_id.rs:66-82) and the first poll of the
\* future of SizeLimitService::call (size_limit.rs:40-71).  A body that
\* streams from the connection suspends the task at its first chunk.  A
\* body held in memory (Body::from(bytes), size_limit.rs:122 and
\* handle.rs:565) is one chunk or none and is read without suspending, so
\* the task runs on into the handler.
\* Tasks are numbered in the order in which their requests arrive.
tag_request_Appends(headers, rid) == HeaderAppend(headers, RID_HEADER, rid)

\* request_id.rs:73-77: headers_mut().insert.
tag_request(headers, rid) == HeaderInsert(headers, RID_HEADER, rid)

\* handle.rs:518-523: the correlation id the handlers read for their logs.
get_request_id(r) ==
    LET value == HeaderGet(r.headers, RID_HEADER)
    IN IF value.some /\ to_str_ok(value.val) THEN value.val ELSE <<>>

RequestIdService_call(t, r, random) ==
    LET rid == <<"s">> \o hex_encode(random)
        tagged == [r EXCEPT !.headers = tag_request(@, rid)]
        data == Concat(r.chunks)
    IN
    /\ pc[t] = "idle"
    /\ IF t = 1 THEN TRUE ELSE pc[t - 1] # "idle"
    /\ request_id' = [request_id EXCEPT ![t] = rid]
    /\ seen' = [seen EXCEPT ![t] = IF r.method = "POST"
                                     THEN Answered(Sha256Hex(data))
                                     ELSE AnsweredUrls]
    /\ IF r.streamed
       THEN /\ req' = [req EXCEPT ![t] = tagged]
            /\ buf' = [buf EXCEPT ![t] = <<>>]
            /\ loc' = [loc EXCEPT ![t] = [caller |-> "SizeLimitService"]]
            /\ pc' = [pc EXCEPT ![t] = "read_body"]
            /\ UNCHANGED <<resp, calls>>
       ELSE /\ buf' = [buf EXCEPT ![t] = data]
            /\ IF r.chunks # <<>> /\ TooLarge(Len(data), max_body_size)
               THEN /\ req' = [req EXCEPT ![t] = [tagged EXCEPT !.chunks = <<>>]]
                    /\ GuardRespondAs(t, rid, PAYLOAD_TOO_LARGE)
                    /\ loc' = [loc EXCEPT ![t] = [caller |-> "SizeLimitService"]]
                    /\ calls' = calls
               ELSE /\ req' = [req EXCEPT ![t] =
                              [tagged EXCEPT !.chunks = <<>>, !.body = data]]
                    /\ Handle_call(t, req'[t], rid)
    /\ UNCHANGED <<resources, id_value, blobs, now, id_list, mutex, proc,
                   max_body_size, refill_log, returned>>

\* size_limit.rs:51-64: one turn of the loop: the next chunk of the body,
\* or the transport's error.
SizeLimitService_chunk(t) ==
    /\ pc[t] = "read_body"
    /\ req[t].chunks # <<>>
    /\ \/ /\ GuardRespondAs(t, request_id[t], Err("body"))
          /\ UNCHANGED <<req, buf>>
       \/ LET data == Head(req[t].chunks)
              grown == buf[t] \o data
          IN /\ buf' = [buf EXCEPT ![t] = grown]
             /\ req' = [req EXCEPT ![t].chunks = Tail(@)]
             /\ IF TooLarge(Len(grown), max_body_size)
                THEN GuardRespondAs(t, request_id[t], PAYLOAD_TOO_LARGE)
                ELSE UNCHANGED <<pc, resp>>
    /\ UNCHANGED <<resources, id_value, blobs, now, id_list, mutex, proc,
                   max_body_size, loc, request_id, calls, refill_log,
                   returned, seen>>

\* size_limit.rs:66-69: the body has ended within the limit: the request
\* goes on with the buffer as its body.
SizeLimitService_forward(t) ==
    /\ pc[t] = "read_body"
    /\ req[t].chunks = <<>>
    /\ req' = [req EXCEPT ![t].body = buf[t]]
    /\ Handle_call(t, req'[t], request_id[t])
    /\ UNCHANGED <<resources, id_value, blobs, now, id_list, mutex, proc,
                   max_body_size, buf, request_id, refill_log, returned, seen>>

(***************************************************************************)
(* handle_upload (handle.rs:278-335) with Database::get_resource_by_hash   *)
(* (db/mod.rs:83-105), Database::insert_resource (db/mod.rs:53-81) and     *)
(* StoreBackend::put.                                                      *)
(***************************************************************************)
\* sqlx's fetch_one on the rows a query matches: one of them, RowNotFound
\* when there is none, or the failure of the query to execute.
fetch_one(rows) ==
    {Err("sqlx")}
    \cup (IF rows = {} THEN {Err("RowNotFound")} ELSE {Ok(row) : row \in rows})

\* What became of the query, kept with the locals of the request.
Fetched(fetched) == IF fetched.ok THEN "row" ELSE fetched.err

get_resource_result_ErrorAsNone(fetched) ==
    IF fetched.ok THEN Ok(Some(Resource(fetched.val))) ELSE Ok(None)

\* db/mod.rs:88-104 and 112-128: the match on what fetch_one gave.
get_resource_result(fetched) ==
    IF fetched.ok THEN Ok(Some(Resource(fetched.val)))
    ELSE IF fetched.err = "RowNotFound" THEN Ok(None)
    ELSE Err("db")

handle_upload_lookup_Touches(t) ==
    LET found == {row \in resources : row.hash = loc[t].hash_result} IN
    /\ pc[t] = "upload_lookup"
    /\ \E fetched \in fetch_one(found) :
          LET resource == get_resource_result(fetched) IN
          /\ loc' = [loc EXCEPT ![t].fetched = Fetched(fetched)]
          /\ IF ~resource.ok
             THEN /\ Respond(t, resource)
                  /\ calls' = [calls EXCEPT ![t] = Append(@, "get_resource_by_hash")]
                  /\ resources' = resources
             ELSE IF resource.val.some
             THEN /\ Respond(t, upload_response(loc[t].host, resource.val.val))
                  /\ calls' = [calls EXCEPT ![t] = Append(@, "get_resource_by_hash")]
                  /\ resources' = (resources \ {fetched.val})
                        \cup {[fetched.val EXCEPT !.create_time = now + 1]}
             ELSE /\ pc' = [pc EXCEPT ![t] = "get_id_lock"]
                  /\ calls' = [calls EXCEPT ![t] =
                         @ \o <<"get_resource_by_hash", "get_id">>]
                  /\ resp' = resp
                  /\ resources' = resources
    /\ UNCHANGED <<id_value, blobs, now, id_list, mutex, proc,
                   max_body_size, req, buf, request_id, refill_log,
                   returned, seen>>

handle_upload_lookup(t) ==
    LET found == {row \in resources : row.hash = loc[t].hash_result} IN
    /\ pc[t] = "upload_lookup"
    /\ \E fetched \in fetch_one(found) :
          LET resource == get_resource_result(fetched) IN
          /\ loc' = [loc EXCEPT ![t].fetched = Fetched(fetched)]
          /\ IF ~resource.ok
             THEN /\ Respond(t, resource)
                  /\ calls' = [calls EXCEPT ![t] = Append(@, "get_resource_by_hash")]
             ELSE IF resource.val.some
             THEN /\ Respond(t, upload_response(loc[t].host, resource.val.val))
                  /\ calls' = [calls EXCEPT ![t] = Append(@, "get_resource_by_hash")]
             ELSE /\ pc' = [pc EXCEPT ![t] = "get_id_lock"]
                  /\ calls' = [calls EXCEPT ![t] =
                         @ \o <<"get_resource_by_hash", "get_id">>]
                  /\ resp' = resp
    /\ UNCHANGED <<resources, id_value, blobs, now, id_list, mutex, proc,
                   max_body_size, req, buf, request_id, refill_log,
                   returned, seen>>

NewRow(l) ==
    [id |-> l.resource_id, bucket |-> l.bucket, create_time |-> l.unix_timestamp,
     hash |-> l.hash_result, resource_size |-> Len(l.data)]

handle_upload_insert(t) ==
    /\ pc[t] = "upload_insert"
    /\ calls' = [calls EXCEPT ![t] = Append(@, "insert_resource")]
    /\ \/ /\ Respond(t, Err("db"))
          /\ resources' = resources
       \/ /\ resources' = resources \cup {NewRow(loc[t])}
          /\ pc' = [pc EXCEPT ![t] = "upload_put"]
          /\ resp' = resp
    /\ UNCHANGED <<id_value, blobs, now, id_list, mutex, proc, max_body_size,
                   req, buf, loc, request_id, refill_log, returned, seen>>

BlobKey(bucket, id) == <<bucket, id>>

Put(store, key, data) ==
    [k \in (DOMAIN store) \cup {key} |-> IF k = key THEN data ELSE store[k]]

handle_upload_put_RollsBack(t) ==
    LET key == BlobKey(loc[t].bucket, loc[t].resource_id) IN
    /\ pc[t] = "upload_put"
    /\ calls' = [calls EXCEPT ![t] = Append(@, "put")]
    /\ \/ /\ Respond(t, Err("store"))
          /\ blobs' = blobs
          /\ resources' = resources \ {NewRow(loc[t])}
       \/ /\ key \notin DOMAIN blobs
          /\ blobs' = Put(blobs, key, loc[t].data)
          /\ resources' = resources
          /\ Respond(t, upload_response(loc[t].host, Resource(NewRow(loc[t]))))
    /\ UNCHANGED <<id_value, now, id_list, mutex, proc,
                   max_body_size, req, buf, loc, request_id, refill_log,
                   returned, seen>>

handle_upload_put(t) ==
    LET key == BlobKey(loc[t].bucket, loc[t].resource_id) IN
    /\ pc[t] = "upload_put"
    /\ calls' = [calls EXCEPT ![t] = Append(@, "put")]
    /\ \/ /\ Respond(t, Err("store"))
          /\ blobs' = blobs
       \/ /\ key \in DOMAIN blobs
          /\ Respond(t, Err("ResourceExist"))
          /\ blobs' = blobs
       \/ /\ key \notin DOMAIN blobs
          /\ blobs' = Put(blobs, key, loc[t].data)
          /\ Respond(t, upload_response(loc[t].host, Resource(NewRow(loc[t]))))
    /\ UNCHANGED <<resources, id_value, now, id_list, mutex, proc,
                   max_body_size, req, buf, loc, request_id, refill_log,
                   returned, seen>>

(***************************************************************************)
(* The blob store's get (store/cos/mod.rs:144-214): the object must exist; *)
(* the range is sent as "bytes=s-", "bytes=s-e" or "bytes=-e" and answered *)
(* as an HTTP byte range: a first byte past the end is refused, a last     *)
(* byte before the first makes the range void (the whole object), and      *)
(* "-e" asks for the last e bytes.                                         *)
(***************************************************************************)
Min(a, b) == IF a < b THEN a ELSE b

get_object(data, start, end) ==
    LET n == Len(data) IN
    CASE ~start.some /\ ~end.some -> Ok(data)
      [] start.some /\ ~end.some ->
           IF start.val >= n THEN Err("InvalidRange")
           ELSE Ok(SubSeq(data, start.val + 1, n))
      [] start.some /\ end.some ->
           IF end.val < start.val THEN Ok(data)
           ELSE IF start.val >= n THEN Err("InvalidRange")
           ELSE Ok(SubSeq(data, start.val + 1, Min(end.val + 1, n)))
      [] OTHER ->
           IF end.val = 0 \/ n = 0 THEN Err("InvalidRange")
           ELSE Ok(SubSeq(data, n - Min(end.val, n) + 1, n))

(***************************************************************************)
(* u64 arithmetic.  A negative number k of the model stands for the u64    *)
(* 2^64 + k that wrapping arithmetic gives; a build with overflow checks   *)
(* panics instead.  Both builds are outcomes.                              *)
(***************************************************************************)
ContentRange(start, end, total) == <<"bytes: ", start, "-", end, "/", total>>

status_code(start, end) == IF start.some \/ end.some THEN 206 ELSE 200

TextHeaders ==
    [NoHeaders EXCEPT !["content-type"] = <<"text/plain", "charset=utf-8">>]

get_response_SliceTotal(resource, start, end, data) ==
    LET first == IF start.some THEN start.val ELSE 0
        last == IF end.some THEN end.val ELSE Len(data) - first - 1
    IN {Ok(Response(status_code(start, end),
                    IF start.some \/ end.some
                    THEN [TextHeaders EXCEPT !["content-range"] =
                             <<ContentRange(first, last, Len(data))>>]
                    ELSE TextHeaders,
                    data))}

\* handle.rs:393-409: the outcomes of building GET's response.
get_response(resource, start, end, data) ==
    LET status == status_code(start, end)
        first == IF start.some THEN start.val ELSE 0
        last == IF end.some THEN end.val ELSE Len(data) - first - 1
        wraps == ~end.some /\ Len(data) < first + 1
        answer == Ok(Response(status,
                     IF status = 206
                     THEN [TextHeaders EXCEPT !["content-range"] =
                              <<ContentRange(first, last, resource.resource_size)>>]
                     ELSE TextHeaders,
                     data))
    IN IF status = 206 /\ wraps THEN {Err("panic"), answer} ELSE {answer}

\* handle.rs:457-487: the clamping of HEAD.
head_clamp(start, end, resource_size) ==
    CASE start.some /\ end.some ->
           IF start.val <= resource_size /\ end.val <= resource_size
           THEN <<start, end, end.val - start.val + 1>>
           ELSE IF start.val > resource_size
           THEN <<Some(resource_size), Some(resource_size), 0>>
           ELSE <<start, Some(resource_size), resource_size - start.val + 1>>
      [] start.some /\ ~end.some ->
           IF start.val <= resource_size
           THEN <<start, None, resource_size - start.val + 1>>
           ELSE <<Some(resource_size), None, 0>>
      [] ~start.some /\ end.some ->
           IF end.val <= resource_size
           THEN <<Some(0), end, end.val + 1>>
           ELSE <<Some(0), Some(resource_size), resource_size>>
      [] OTHER -> <<None, None, resource_size>>

\* handle.rs:451-507: the outcomes of HEAD's response.
head_response(resource, start, end) ==
    LET status == status_code(start, end)
        clamp == head_clamp(start, end, resource.resource_size)
        total == clamp[3]
        first == IF clamp[1].some THEN clamp[1].val ELSE 0
        last == IF clamp[2].some THEN clamp[2].val ELSE total
        wraps == /\ start.some /\ end.some
                 /\ start.val <= resource.resource_size
                 /\ end.val <= resource.resource_size
                 /\ end.val < start.val
        answer == Ok(Response(status,
                     IF status = 206
                     THEN [TextHeaders EXCEPT
                              !["content-range"] = <<ContentRange(first, last, total)>>,
                              !["content-length"] = <<total>>]
                     ELSE TextHeaders,
                     <<>>))
    IN IF wraps THEN {Err("panic"), answer} ELSE {answer}

(***************************************************************************)
(* handle_get (handle.rs:337-410) and handle_head (handle.rs:412-508)      *)
(* with Database::get_resource_by_id (db/mod.rs:107-129).                  *)
(***************************************************************************)
NOT_FOUND_WithBody == Ok(Response(404, NoHeaders, <<"4", "0", "4">>))

\* handle.rs:347-351 and 422-426: no row for the id.
NOT_FOUND == Ok(Response(404, NoHeaders, <<>>))

handle_get_lookup_Touches(t) ==
    LET found == {row \in resources : row.id = loc[t].resource_id} IN
    /\ pc[t] = "get_lookup"
    /\ calls' = [calls EXCEPT ![t] = Append(@, "get_resource_by_id")]
    /\ \E fetched \in fetch_one(found) :
          LET resource == get_resource_result(fetched)
              range == parse_range(req[t].headers)
          IN IF ~resource.ok
             THEN /\ Respond(t, resource)
                  /\ loc' = [loc EXCEPT ![t].fetched = Fetched(fetched)]
                  /\ resources' = resources
             ELSE IF ~resource.val.some
             THEN /\ Respond(t, NOT_FOUND)
                  /\ loc' = [loc EXCEPT ![t].fetched = Fetched(fetched)]
                  /\ resources' = resources
             ELSE /\ loc' = [loc EXCEPT ![t] =
                         [caller |-> "handle_get", fetched |-> Fetched(fetched),
                          resource_id |-> loc[t].resource_id,
                          resource |-> resource.val.val,
                          start |-> range.start, end |-> range.end]]
                  /\ pc' = [pc EXCEPT ![t] = "get_store"]
                  /\ resp' = resp
                  /\ resources' = (resources \ {fetched.val})
                        \cup {[fetched.val EXCEPT !.create_time = now + 1]}
    /\ UNCHANGED <<id_value, blobs, now, id_list, mutex, proc,
                   max_body_size, req, buf, request_id, refill_log,
                   returned, seen>>

handle_get_lookup(t) ==
    LET found == {row \in resources : row.id = loc[t].resource_id} IN
    /\ pc[t] = "get_lookup"
    /\ calls' = [calls EXCEPT ![t] = Append(@, "get_resource_by_id")]
    /\ \E fetched \in fetch_one(found) :
          LET resource == get_resource_result(fetched)
              range == parse_range(req[t].headers)
          IN IF ~resource.ok
             THEN /\ Respond(t, resource)
                  /\ loc' = [loc EXCEPT ![t].fetched = Fetched(fetched)]
             ELSE IF ~resource.val.some
             THEN /\ Respond(t, NOT_FOUND)
                  /\ loc' = [loc EXCEPT ![t].fetched = Fetched(fetched)]
             ELSE /\ loc' = [loc EXCEPT ![t] =
                         [caller |-> "handle_get", fetched |-> Fetched(fetched),
                          resource_id |-> loc[t].resource_id,
                          resource |-> resource.val.val,
                          start |-> range.start, end |-> range.end]]
                  /\ pc' = [pc EXCEPT ![t] = "get_store"]
                  /\ resp' = resp
    /\ UNCHANGED <<resources, id_value, blobs, now, id_list, mutex, proc,
                   max_body_size, req, buf, request_id, refill_log,
                   returned, seen>>

\* handle.rs:376-386: the arguments of StoreBackend::get.
store_get_args_FromStart(resource, start, end) ==
    <<resource.bucket, resource.id, Some(0), end>>

store_get_args(resource, start, end) ==
    <<resource.bucket, resource.id, start, end>>

handle_get_store(t) ==
    LET resource == loc[t].resource
        key == BlobKey(resource.bucket, resource.id)
    IN
    /\ pc[t] = "get_store"
    /\ calls' = [calls EXCEPT ![t] = Append(@, "get")]
    /\ loc' = [loc EXCEPT ![t] =
           [caller |-> "handle_get", fetched |-> loc[t].fetched,
            resource_id |-> loc[t].resource_id,
            resource |-> resource, start |-> loc[t].start, end |-> loc[t].end,
            asked |-> store_get_args(resource, loc[t].start, loc[t].end)]]
    /\ \/ Respond(t, Err("store"))
       \/ /\ key \notin DOMAIN blobs
          /\ Respond(t, Err("ResourceNotFound"))
       \/ /\ key \in DOMAIN blobs
          /\ LET got == get_object(blobs[key], loc'[t].asked[3], loc'[t].asked[4]) IN
             IF got.ok
             THEN \E result \in get_response(resource, loc[t].start,
                                             loc[t].end, got.val) :
                      Respond(t, result)
             ELSE Respond(t, got)
    /\ UNCHANGED <<resources, id_value, blobs, now, id_list, mutex, proc,
                   max_body_size, req, buf, request_id, refill_log,
                   returned, seen>>

handle_head_lookup(t) ==
    LET found == {row \in resources : row.id = loc[t].resource_id} IN
    /\ pc[t] = "head_lookup"
    /\ calls' = [calls EXCEPT ![t] = Append(@, "get_resource_by_id")]
    /\ \E fetched \in fetch_one(found) :
          LET resource == get_resource_result(fetched)
              range == parse_range(req[t].headers)
          IN IF ~resource.ok
             THEN /\ Respond(t, resource)
                  /\ loc' = [loc EXCEPT ![t].fetched = Fetched(fetched)]
             ELSE IF ~resource.val.some
             THEN /\ Respond(t, NOT_FOUND)
                  /\ loc' = [loc EXCEPT ![t].fetched = Fetched(fetched)]
             ELSE \E result \in head_response(resource.val.val,
                                               range.start, range.end) :
                     /\ Respond(t, result)
                     /\ loc' = [loc EXCEPT ![t] =
                            [caller |-> "handle_head",
                             fetched |-> Fetched(fetched),
                             resource_id |-> loc[t].resource_id,
                             resource |-> resource.val.val,
                             start |-> range.start, end |-> range.end,
                             clamp |-> IF result.ok
                                       THEN Some(head_clamp(
                                                range.start, range.end,
                                                resource.val.val.resource_size))
                                       ELSE None]]
    /\ UNCHANGED <<resources, id_value, blobs, now, id_list, mutex, proc,
                   max_body_size, req, buf, request_id, refill_log,
                   returned, seen>>

(***************************************************************************)
(* The generator alone: callers of get_id on the processes' generators,    *)
(* all sharing one counter row.                                            *)
(***************************************************************************)
InitCommon ==
    /\ resources = {}
    /\ blobs = <<>>
    /\ now = 0
    /\ id_list = [g \in Procs |-> <<>>]
    /\ mutex = [g \in Procs |-> 0]
    /\ pc = [t \in Tasks |-> "idle"]
    /\ req = [t \in Tasks |-> NoReq]
    /\ buf = [t \in Tasks |-> <<>>]
    /\ loc = [t \in Tasks |-> NoLoc]
    /\ resp = [t \in Tasks |-> NoResp]
    /\ request_id = [t \in Tasks |-> <<>>]
    /\ calls = [t \in Tasks |-> <<>>]
    /\ refill_log = <<>>
    /\ returned = [g \in Procs |-> <<>>]
    /\ seen = [t \in Tasks |-> {}]

GenInit ==
    /\ InitCommon
    /\ id_value \in InitialCounters
    /\ max_body_size = 0
    /\ proc = [t \in Tasks |-> ((t - 1) % NumProcs) + 1]

\* The tasks that call get_id directly.
Callers == 1..NumCallers

GenNext ==
    \E t \in Callers :
        \/ direct_get_id(t)
        \/ get_id_lock(t)
        \/ get_id_db(t)
        \/ get_id_db_lost(t)

SpecGen == GenInit /\ [][GenNext]_vars

(***************************************************************************)
(* The server: requests arrive at one process and run concurrently.        *)
(***************************************************************************)
\* A request as it arrives: its body is still to be read, chunk by chunk.
Request(method, path, headers, chunks, streamed) ==
    [method |-> method, path |-> path, headers |-> headers, received |-> headers,
     streamed |-> streamed, chunks |-> chunks, sent |-> chunks, body |-> <<>>]

Bodies == {<<1>>, <<2, 3>>}

UNKNOWN_PATH == GET_PATH \o <<"/", "0">>

\* The paths of the retrieval urls the server has answered so far.
KnownPaths == {uri_path(url) : url \in AnsweredUrls}

Requests ==
    {Request("POST", UPLOAD_PATH, NoHeaders, <<b>>, FALSE) : b \in Bodies}
    \cup {Request("GET", p, NoHeaders, <<>>, FALSE) :
              p \in KnownPaths \cup {UNKNOWN_PATH}}

RANDOM == [k \in 1..8 |-> 16 * k + 1]

Init ==
    /\ InitCommon
    /\ id_value = 7
    /\ max_body_size = 2
    /\ proc = [t \in Tasks |-> 1]

Next ==
    \E t \in Tasks :
        \/ \E r \in Requests : RequestIdService_call(t, r, RANDOM)
        \/ handle_upload_lookup(t)
        \/ get_id_lock(t)
        \/ get_id_db(t)
        \/ handle_upload_insert(t)
        \/ handle_upload_put(t)
        \/ handle_get_lookup(t)
        \/ handle_get_store(t)

Spec == Init /\ [][Next]_vars

(***************************************************************************)
(* One connection: its requests are served one after another; bodies       *)
(* stream in chunks and the limit is any of the small ones.                *)
(***************************************************************************)
\* The connection is ready for its next request (http/mod.rs: the
\* connection's service is called once per request).
Connection_next(t) ==
    /\ pc[t] = "done"
    /\ pc' = [pc EXCEPT ![t] = "idle"]
    /\ req' = [req EXCEPT ![t] = NoReq]
    /\ buf' = [buf EXCEPT ![t] = <<>>]
    /\ loc' = [loc EXCEPT ![t] = NoLoc]
    /\ resp' = [resp EXCEPT ![t] = NoResp]
    /\ request_id' = [request_id EXCEPT ![t] = <<>>]
    /\ calls' = [calls EXCEPT ![t] = <<>>]
    /\ seen' = [seen EXCEPT ![t] = {}]
    /\ UNCHANGED <<resources, id_value, blobs, now, id_list, mutex, proc,
                   max_body_size, refill_log, returned>>

ChunkValues == {<<1>>, <<2, 3>>}

RECURSIVE SeqsUpTo(_, _)
SeqsUpTo(S, n) ==
    IF n = 0 THEN {<<>>}
    ELSE LET shorter == SeqsUpTo(S, n - 1)
         IN shorter \cup {Append(q, x) : q \in shorter, x \in S}

Chunkings == SeqsUpTo(ChunkValues, MaxChunks)

Methods == {"GET", "HEAD", "POST", "PUT"}

\* The retrieval paths of the rows there are.
StoredPaths == {GET_PATH \o <<"/">> \o row.id : row \in resources}

ProbePaths ==
    {UPLOAD_PATH, UPLOAD_PATH \o <<"x">>, GET_PATH, UNKNOWN_PATH, <<"/">>}
    \cup StoredPaths

PipeRequests ==
    {Request("POST", UPLOAD_PATH, NoHeaders, c, TRUE) : c \in Chunkings}
    \cup {Request("POST", UPLOAD_PATH, NoHeaders, <<b>>, FALSE) : b \in ChunkValues}
    \cup {Request(m, p, NoHeaders, <<>>, FALSE) : m \in Methods, p \in ProbePaths}

PipeInit ==
    /\ InitCommon
    /\ id_value = 7
    /\ max_body_size \in 0..MaxLimit
    /\ proc = [t \in Tasks |-> 1]

PipeNext ==
    \/ \E r \in PipeRequests :
          /\ Route(r.method, r.path) = "handle_upload" => Len(returned[1]) < MaxUploads
          /\ RequestIdService_call(1, r, RANDOM)
    \/ SizeLimitService_chunk(1)
    \/ SizeLimitService_forward(1)
    \/ handle_upload_lookup(1)
    \/ get_id_lock(1)
    \/ get_id_db(1)
    \/ handle_upload_insert(1)
    \/ handle_upload_put(1)
    \/ handle_get_lookup(1)
    \/ handle_get_store(1)
    \/ handle_head_lookup(1)
    \/ Connection_next(1)

SpecPipe == PipeInit /\ [][PipeNext]_vars

(***************************************************************************)
(* Uploads on connections of several processes, each with its own          *)
(* Generator, all sharing the counter row, the rows and the store.         *)
(***************************************************************************)
UploadRequests ==
    {Request("POST", UPLOAD_PATH, NoHeaders, <<b>>, FALSE) : b \in Bodies}

IdsInit ==
    /\ InitCommon
    /\ id_value \in InitialCounters
    /\ max_body_size = MaxLimit
    /\ proc = [t \in Tasks |-> ((t - 1) % NumProcs) + 1]

IdsNext ==
    \E t \in Callers :
        \/ /\ pc[t] = "idle"
           /\ \E r \in UploadRequests : RequestIdService_call(t, r, RANDOM)
        \/ handle_upload_lookup(t)
        \/ get_id_lock(t)
        \/ get_id_db(t)
        \/ handle_upload_insert(t)
        \/ handle_upload_put(t)

SpecIds == IdsInit /\ [][IdsNext]_vars

(***************************************************************************)
(* One connection whose requests carry headers: Host on uploads, Range on  *)
(* GET and HEAD, and correlation ids sent by the client.  The bodies are   *)
(* held in memory and the limit is MaxBody.                                *)
(***************************************************************************)
\* format!("{}", n) of a number below ten.
Numeral(n) == <<Digits[n + 1]>>

RangeEnds == {<<>>} \cup {Numeral(n) : n \in 0..MaxRange}

RangeValues == {BYTES_EQ \o a \o <<"-">> \o b : a \in RangeEnds, b \in RangeEnds}

\* Range headers that are not "bytes=", a number or nothing, "-", a number
\* or nothing.
MalformedRanges ==
    {<<"b", "i", "t", "s", "=", "1", "-", "2">>,
     <<"1", "-", "2">>,
     BYTES_EQ \o <<"1">>,
     BYTES_EQ \o <<"1", "-", "2", "-", "3">>,
     BYTES_EQ \o <<"1", "-">> \o BYTES_EQ \o <<"2">>,
     BYTES_EQ \o <<"a", "-", "2">>,
     BYTES_EQ \o <<"1", "-", "b">>,
     BYTES_EQ \o <<"+", "1", "-", "2">>,
     BYTES_EQ \o <<"1", "-", NON_ASCII>>}

Hosts == {<<"h">>, <<"h", " ">>, <<NON_ASCII>>}

\* The values of the correlation header a client sends: none, one, two.
ClientIds == {<<>>, <<<<"c">>>>, <<<<"c">>, <<"d">>>>}

Headers(host, range, rid) ==
    [NoHeaders EXCEPT !["host"] = host, !["range"] = range, ![RID_HEADER] = rid]

StoredBodies == {<<>>, <<1>>, [i \in 1..MaxBody |-> i + 1]}

OVERSIZE == [i \in 1..(MaxBody + 1) |-> i + 1]

\* Body::from(bytes): one chunk, or none for no bytes.
InMemory(bytes) == IF bytes = <<>> THEN <<>> ELSE <<bytes>>

HeaderRequests ==
    {Request("POST", UPLOAD_PATH, Headers(host, <<>>, rid), InMemory(b), FALSE) :
        b \in StoredBodies,
        host \in {<<>>} \cup {<<h>> : h \in Hosts},
        rid \in ClientIds}
    \cup {Request("POST", UPLOAD_PATH, Headers(<<>>, <<>>, rid), InMemory(OVERSIZE), FALSE) :
        rid \in ClientIds}
    \cup {Request(m, p, Headers(<<>>, range, <<>>), <<>>, FALSE) :
        m \in {"GET", "HEAD"},
        p \in StoredPaths \cup {UNKNOWN_PATH},
        range \in {<<>>} \cup {<<v>> : v \in RangeValues \cup MalformedRanges}}
    \cup {Request(m, p, Headers(<<>>, range, rid), <<>>, FALSE) :
        m \in Methods,
        p \in ProbePaths,
        range \in {<<>>, <<BYTES_EQ \o <<"0", "-", "0">>>>},
        rid \in ClientIds}

HeaderInit ==
    /\ InitCommon
    /\ id_value = 7
    /\ max_body_size = MaxBody
    /\ proc = [t \in Tasks |-> 1]

HeaderNext ==
    \/ /\ pc[1] = "idle"
       /\ \E r \in HeaderRequests :
             /\ Route(r.method, r.path) = "handle_upload"
                   => Len(returned[1]) < MaxUploads
             /\ RequestIdService_call(1, r, RANDOM)
    \/ handle_upload_lookup(1)
    \/ get_id_lock(1)
    \/ get_id_db(1)
    \/ handle_upload_insert(1)
    \/ handle_upload_put(1)
    \/ handle_get_lookup(1)
    \/ handle_get_store(1)
    \/ handle_head_lookup(1)
    \/ Connection_next(1)

SpecHeader == HeaderInit /\ [][HeaderNext]_vars

(***************************************************************************)
(* Properties of the generator, checked under SpecGen.                     *)
(***************************************************************************)
\* The refills of process g's generator, in order.
RefillsOf(g) ==
    LET Mine(e) == e.proc = g IN SelectSeq(refill_log, Mine)

\* The integers (max - step + 1)..max of a refill that received max.
RangeOf(e) == (e.max_id - step + 1)..e.max_id

\* C5: starting from an empty queue, every `step` consecutive successful
\* get_id calls on one generator cost exactly one counter increment, of
\* size exactly `step`; the ids of one batch are pairwise distinct and are
\* the ids of the integers of that increment's range, in ascending order.
C5_Batching ==
    \A g \in Procs :
        LET mine == RefillsOf(g)
            n == Len(returned[g])
            BatchOf(i) == ((i - 1) \div step) + 1
        IN /\ Len(mine) = (n + step - 1) \div step
           /\ \A k \in 1..Len(mine) : mine[k].max_id - mine[k].before = step
           /\ \A i \in 1..n :
                 returned[g][i] =
                     MintId(mine[BatchOf(i)].before + ((i - 1) % step) + 1)
           /\ \A i, j \in 1..n :
                 (i # j /\ BatchOf(i) = BatchOf(j))
                     => returned[g][i] # returned[g][j]

\* A generator has given out one whole batch and the first id of the next.
C5_Witness ==
    \E g \in Procs :
        /\ Len(returned[g]) = step + 1
        /\ Len(RefillsOf(g)) = 2

\* C6: whatever the interleaving of the refills of the processes that share
\* the counter row, the ranges [max - step + 1, max] of different refills
\* are pairwise disjoint, and a refill mints exactly the integers of its
\* range: no integer is minted twice.
C6_DisjointRanges ==
    /\ \A k \in 1..Len(refill_log) :
          {refill_log[k].ints[i] : i \in 1..Len(refill_log[k].ints)}
              = RangeOf(refill_log[k])
    /\ \A j, k \in 1..Len(refill_log) :
          j # k => RangeOf(refill_log[j]) \cap RangeOf(refill_log[k]) = {}

\* Three refills, alternating between two processes.
C6_Witness ==
    /\ Len(refill_log) >= 3
    /\ refill_log[1].proc # refill_log[2].proc
    /\ refill_log[2].proc # refill_log[3].proc

\* C7: when the counter update of a refill fails, the caller gets the
\* error, the queue is as it was (empty), nothing is minted, the lock is
\* released and the update was tried once; a call that then finds the queue
\* empty goes to the counter again.
C7_FailedRefill ==
    [][\A t \in Tasks :
          /\ (pc[t] = "get_id_db" /\ pc'[t] # "get_id_db"
                 /\ (id_value' = id_value \/ refill_log' = refill_log))
                => /\ loc'[t].ret = Err("db")
                   /\ id_list[proc[t]] = <<>>
                   /\ id_list'[proc[t]] = <<>>
                   /\ mutex[proc[t]] = t
                   /\ mutex'[proc[t]] = 0
                   /\ refill_log' = refill_log
                   /\ returned' = returned
                   /\ calls'[t] = <<"get_id", "update_id_generate">>
          /\ (pc[t] = "get_id_lock" /\ pc'[t] # "get_id_lock"
                                    /\ id_list[proc[t]] = <<>>)
                => /\ pc'[t] = "get_id_db"
                   /\ calls'[t] = <<"get_id", "update_id_generate">>
      ]_vars

\* A caller has got the error of a failed refill, and another caller of the
\* same generator now holds the lock and waits for the counter.
C7_Witness ==
    \E t, u \in Tasks :
        /\ t # u
        /\ proc[t] = proc[u]
        /\ pc[t] = "idle"
        /\ loc[t] = [caller |-> "direct", ret |-> Err("db")]
        /\ pc[u] = "get_id_db"
        /\ mutex[proc[u]] = u
        /\ id_list[proc[u]] = <<>>
        /\ refill_log = <<>>

(***************************************************************************)
(* Properties of the body guard and the router, checked under SpecPipe.    *)
(***************************************************************************)
\* The bytes of the chunks the request was sent with.
SentBytes(t) == Concat(req[t].sent)

\* The number of chunks SizeLimitService has taken from the body.
ChunksRead(t) == Len(req[t].sent) - Len(req[t].chunks)

Routes == {"handle_upload", "handle_get", "handle_head", "bad_request"}

\* The response that left the pipeline is the handler's, the correlation
\* header apart.
SameButStamp(out, inner) ==
    IF inner.ok
    THEN /\ out.ok
         /\ out.val.status = inner.val.status
         /\ out.val.body = inner.val.body
         /\ \A n \in HeaderNames \ {RID_HEADER} :
               out.val.headers[n] = inner.val.headers[n]
    ELSE out = inner

\* C8: once the bytes read from a body exceed the limit the request is
\* answered 413 and Handle is never called for it: no lookup, no id, no
\* insert, no put; the chunk that took the total over the limit is the last
\* one read.  A request sent with more bytes than the limit never reaches
\* Handle.
C8_Oversize ==
    \A t \in Tasks :
        req[t] # NoReq =>
            /\ Len(buf[t]) > max_body_size =>
                  /\ pc[t] = "done"
                  /\ resp[t].out.ok
                  /\ resp[t].out.val.status = 413
                  /\ resp[t].inner = None
                  /\ calls[t] = <<>>
                  /\ buf[t] = Concat(SubSeq(req[t].sent, 1, ChunksRead(t)))
                  /\ Len(Concat(SubSeq(req[t].sent, 1, ChunksRead(t) - 1)))
                        <= max_body_size
            /\ Len(SentBytes(t)) > max_body_size => calls[t] = <<>>

\* A streamed body whose first chunk fits and whose second chunk takes it
\* over the limit has been answered 413.
C8_Witness ==
    \E t \in Tasks :
        /\ pc[t] = "done"
        /\ req[t].streamed
        /\ ChunksRead(t) = 2
        /\ Len(req[t].sent[1]) <= max_body_size
        /\ Len(buf[t]) > max_body_size
        /\ resp[t].out.ok
        /\ resp[t].out.val.status = 413

\* C9: a request whose body is at most the limit, the limit itself
\* included, and whose transport does not fail is forwarded: Handle is
\* called exactly once, with the chunks' bytes in order as the body, and the
\* response that leaves is Handle's.
C9_WithinLimit ==
    \A t \in Tasks :
        req[t] # NoReq =>
            /\ (/\ pc[t] = "done"
                /\ Len(SentBytes(t)) <= max_body_size
                /\ resp[t].out # Err("body"))
                  => resp[t].inner # None
            /\ calls[t] # <<>> =>
                  /\ {i \in 1..Len(calls[t]) : calls[t][i] \in Routes} = {1}
                  /\ req[t].body = SentBytes(t)
                  /\ Len(req[t].body) <= max_body_size
            /\ (pc[t] = "done" /\ resp[t].inner # None)
                  => SameButStamp(resp[t].out, resp[t].inner.val)

\* A body streamed in two chunks, as long as the limit exactly, has been
\* uploaded and answered 200.
C9_Witness ==
    \E t \in Tasks :
        /\ pc[t] = "done"
        /\ req[t].streamed
        /\ Len(req[t].sent) = 2
        /\ Len(SentBytes(t)) = max_body_size
        /\ resp[t].inner # None
        /\ calls[t][1] = "handle_upload"
        /\ resp[t].out.ok
        /\ resp[t].out.val.status = 200

\* C10: every request Handle gets goes by its method and the prefix of its
\* path: POST and /upload to handle_upload, GET and /get to handle_get, HEAD
\* and /get to handle_head; any other request is answered 400 with an empty
\* body and calls neither the database, the generator nor the store.
C10_Routing ==
    \A t \in Tasks :
        (req[t] # NoReq /\ calls[t] # <<>>) =>
            LET method == req[t].method
                upload_prefix == starts_with(req[t].path, UPLOAD_PATH)
                get_prefix == starts_with(req[t].path, GET_PATH)
            IN CASE method = "POST" /\ upload_prefix ->
                       calls[t][1] = "handle_upload" /\ loc[t].caller = "handle_upload"
                 [] method = "GET" /\ get_prefix ->
                       calls[t][1] = "handle_get" /\ loc[t].caller = "handle_get"
                 [] method = "HEAD" /\ get_prefix ->
                       calls[t][1] = "handle_head" /\ loc[t].caller = "handle_head"
                 [] OTHER ->
                       /\ calls[t] = <<"bad_request">>
                       /\ pc[t] = "done"
                       /\ resp[t].out.ok
                       /\ resp[t].out.val.status = 400
                       /\ resp[t].out.val.body = <<>>

\* A PUT to /upload and nothing else has been answered 400.
C10_Witness ==
    \E t \in Tasks :
        /\ pc[t] = "done"
        /\ req[t].method = "PUT"
        /\ req[t].path = UPLOAD_PATH
        /\ calls[t] = <<"bad_request">>
        /\ resp[t].out.ok
        /\ resp[t].out.val.status = 400

(***************************************************************************)
(* Properties of uploads and retrievals, checked under Spec.               *)
(***************************************************************************)
UploadOk(t) == t \in AnsweredUploads

\* The id in the retrieval url an upload was answered with.
UrlId(url) == path_resource_id(uri_path(url))

GetDone(t) == pc[t] = "done" /\ loc[t].caller = "handle_get"

\* The request ended in a failure of the database or the store to answer.
Transient(t) == resp[t].out \in {Err("db"), Err("store")}

\* C1: an upload that starts after an upload of the same bytes has been
\* answered 200 gets the same resource id as that answer, and makes no put.
C1_SequentialDedup ==
    \A t \in Tasks :
        (UploadOk(t) /\ seen[t] # {}) =>
            /\ \A url \in seen[t] : UrlId(url) = UrlId(resp[t].out.val.body)
            /\ \A i \in 1..Len(calls[t]) : calls[t][i] # "put"

\* C2: the metadata store never holds two rows with the same content hash.
C2_OneRowPerHash ==
    \A r1, r2 \in resources : r1.hash = r2.hash => r1 = r2

\* C3: uploads answered 200 for bodies of different hashes have different
\* ids, and a GET of either id that starts after both answers returns that
\* id's bytes.
C3_DistinctIndependent ==
    \A u1, u2 \in Tasks :
        (UploadOk(u1) /\ UploadOk(u2)
                      /\ loc[u1].hash_result # loc[u2].hash_result) =>
            /\ UrlId(resp[u1].out.val.body) # UrlId(resp[u2].out.val.body)
            /\ \A g \in Tasks :
                  (/\ GetDone(g)
                   /\ {resp[u1].out.val.body, resp[u2].out.val.body} \subseteq seen[g]
                   /\ req[g].path = uri_path(resp[u1].out.val.body)
                   /\ ~Transient(g))
                     => /\ resp[g].out.ok
                        /\ resp[g].out.val.status = 200
                        /\ resp[g].out.val.body = loc[u1].data

\* C4: a GET without Range of the path of a url an upload of b was answered
\* with, started after that answer, looks up the id of that url and returns
\* 200 with exactly b.
C4_RoundTrip ==
    \A u, g \in Tasks :
        (/\ UploadOk(u)
         /\ GetDone(g)
         /\ resp[u].out.val.body \in seen[g]
         /\ req[g].path = uri_path(resp[u].out.val.body)
         /\ req[g].headers["range"] = <<>>
         /\ ~Transient(g))
           => /\ loc[g].resource_id = UrlId(resp[u].out.val.body)
              /\ resp[g].out.ok
              /\ resp[g].out.val.status = 200
              /\ resp[g].out.val.body = loc[u].data

(***************************************************************************)
(* Properties of the responses of GET and HEAD and of the headers, checked *)
(* under SpecHeader.                                                       *)
(***************************************************************************)
Retrievals == {t \in Done : loc[t].caller \in {"handle_get", "handle_head"}}

\* get_resource_by_id answered, and with no row: the connection serves one
\* request at a time, so the rows are those the lookup saw.
NoRow(t) ==
    /\ resp[t].inner # Some(Err("db"))
    /\ \A row \in resources : row.id # loc[t].resource_id

\* C11: a GET or a HEAD whose lookup by id gives no row is answered 404
\* with an empty body, and the blob store is not called; no other GET or
\* HEAD is answered 404.
C11_NotFound ==
    \A t \in Retrievals :
        /\ NoRow(t) =>
              /\ resp[t].out.ok
              /\ resp[t].out.val.status = 404
              /\ resp[t].out.val.body = <<>>
              /\ calls[t] = <<loc[t].caller, "get_resource_by_id">>
        /\ (resp[t].out.ok /\ resp[t].out.val.status = 404) => NoRow(t)

\* With a row stored, a GET with a Range header for an id that has no row
\* has been answered 404.
C11_Witness ==
    \E t \in Retrievals :
        /\ resources # {}
        /\ req[t].method = "GET"
        /\ req[t].headers["range"] # <<>>
        /\ NoRow(t)
        /\ resp[t].out.ok
        /\ resp[t].out.val.status = 404

\* The HEAD requests answered after their row was found.
HeadsFound == {t \in Done : loc[t].caller = "handle_head" /\ "clamp" \in DOMAIN loc[t]}

\* C12: HEAD computes (effectiveStart, effectiveEnd, contentLength) from the
\* requested bounds and the size S of the row as the clamping table says,
\* for every combination of bounds absent, below S, equal to S and above S.
\* The length is a number of bytes: a negative length of the model is a
\* wrapped u64, not the table's number.
C12_ClampTable ==
    \A t \in HeadsFound :
        LET S == loc[t].resource.resource_size
            start == loc[t].start
            end == loc[t].end
            table ==
                CASE start.some /\ end.some /\ start.val <= S /\ end.val <= S ->
                       <<start, end, end.val - start.val + 1>>
                  [] start.some /\ end.some /\ start.val > S ->
                       <<Some(S), Some(S), 0>>
                  [] start.some /\ end.some /\ start.val <= S /\ S < end.val ->
                       <<start, Some(S), S - start.val + 1>>
                  [] start.some /\ ~end.some /\ start.val <= S ->
                       <<start, None, S - start.val + 1>>
                  [] start.some /\ ~end.some /\ start.val > S ->
                       <<Some(S), None, 0>>
                  [] ~start.some /\ end.some /\ end.val <= S ->
                       <<Some(0), end, end.val + 1>>
                  [] ~start.some /\ end.some /\ end.val > S ->
                       <<Some(0), Some(S), S>>
                  [] OTHER -> <<None, None, S>>
        IN /\ loc[t].clamp = Some(table)
           /\ loc[t].clamp.val[3] >= 0

\* The table holds for the HEAD requests whose bounds are not a start above
\* an end with both within S.
ClampTableElsewhere ==
    \A t \in HeadsFound :
        LET S == loc[t].resource.resource_size
            start == loc[t].start
            end == loc[t].end
        IN ~(start.some /\ end.some /\ start.val <= S /\ end.val <= S
             /\ end.val < start.val)
           => /\ loc[t].clamp.some
              /\ loc[t].clamp.val[3] >= 0
              /\ loc[t].clamp.val =
                   (CASE start.some /\ end.some /\ start.val <= S /\ end.val <= S ->
                           <<start, end, end.val - start.val + 1>>
                      [] start.some /\ end.some /\ start.val > S ->
                           <<Some(S), Some(S), 0>>
                      [] start.some /\ end.some ->
                           <<start, Some(S), S - start.val + 1>>
                      [] start.some /\ start.val <= S ->
                           <<start, None, S - start.val + 1>>
                      [] start.some -> <<Some(S), None, 0>>
                      [] end.some /\ end.val <= S -> <<Some(0), end, end.val + 1>>
                      [] end.some -> <<Some(0), Some(S), S>>
                      [] OTHER -> <<None, None, S>>)

\* C13: a HEAD on an existing resource is answered 206 with Content-Range
\* and Content-Length when a range was requested and lies within the size
\* of the resource, and 200 otherwise (no range, or a range out of bounds);
\* the body is empty in every case.
C13_HeadStatus ==
    \A t \in HeadsFound :
        resp[t].out.ok =>
            LET S == loc[t].resource.resource_size
                start == loc[t].start
                end == loc[t].end
                requested == start.some \/ end.some
                within == /\ start.some => start.val <= S
                          /\ end.some => end.val <= S
                response == resp[t].out.val
            IN /\ response.body = <<>>
               /\ IF requested /\ within
                  THEN /\ response.status = 206
                       /\ response.headers["content-range"] # <<>>
                       /\ response.headers["content-length"] # <<>>
                  ELSE response.status = 200

\* C14: a HEAD request never calls the blob store, whether its id is known
\* or not and whatever its Range header; its outcome is one that the row of
\* the id and the headers of the request determine.
C14_HeadNoStore ==
    \A t \in Tasks :
        req[t].method = "HEAD" =>
            /\ \A i \in 1..Len(calls[t]) : calls[t][i] \notin {"get", "put", "delete"}
            /\ (pc[t] = "done" /\ loc[t].caller = "handle_head") =>
                  LET found == {row \in resources : row.id = loc[t].resource_id}
                      range == parse_range(req[t].headers)
                  IN resp[t].inner.val \in
                        {Err("db")}
                        \cup (IF found = {} THEN {NOT_FOUND} ELSE {})
                        \cup UNION {head_response(Resource(row), range.start, range.end) :
                                       row \in found}

\* A HEAD with a Range header for a stored id has been answered 206 after
\* the lookup by id alone, with the blob of the id in the store.
C14_Witness ==
    \E t \in HeadsFound :
        /\ req[t].headers["range"] # <<>>
        /\ resp[t].out.ok
        /\ resp[t].out.val.status = 206
        /\ calls[t] = <<"handle_head", "get_resource_by_id">>
        /\ BlobKey(loc[t].resource.bucket, loc[t].resource.id) \in DOMAIN blobs

\* The GET requests that found their row and called the store.
GetsFound == {t \in Done : loc[t].caller = "handle_get" /\ "asked" \in DOMAIN loc[t]}

\* C15: a GET on an existing resource asks the blob store for exactly the
\* parsed (start, end); its response is 206 with a Content-Range header if
\* and only if a parsed bound is present, and is otherwise 200 without
\* Content-Range and with the full body.
C15_GetStatus ==
    \A t \in GetsFound :
        LET range == parse_range(req[t].headers)
            resource == loc[t].resource
            present == range.start.some \/ range.end.some
        IN /\ loc[t].asked = <<resource.bucket, resource.id, range.start, range.end>>
           /\ resp[t].out.ok =>
                 LET response == resp[t].out.val IN
                 IF present
                 THEN /\ response.status = 206
                      /\ Len(response.headers["content-range"]) = 1
                 ELSE /\ response.status = 200
                      /\ response.headers["content-range"] = <<>>
                      /\ response.body = blobs[BlobKey(resource.bucket, resource.id)]

\* A GET with an end and no start has been answered 206 with a part of the
\* blob, the store having been asked for (none, end).
C15_Witness ==
    \E t \in GetsFound :
        /\ ~loc[t].asked[3].some
        /\ loc[t].asked[4].some
        /\ resp[t].out.ok
        /\ resp[t].out.val.status = 206
        /\ resp[t].out.val.headers["content-range"] # <<>>
        /\ resp[t].out.val.body # blobs[BlobKey(loc[t].resource.bucket, loc[t].resource.id)]

\* C16: in every 206 response of GET the total of Content-Range is the
\* size recorded in the row of the resource, whatever the length of the
\* slice the store returned.
C16_RecordedTotal ==
    \A t \in GetsFound :
        (resp[t].out.ok /\ resp[t].out.val.status = 206) =>
            /\ resp[t].out.val.headers["content-range"] # <<>>
            /\ \E row \in resources :
                  /\ row.id = loc[t].resource_id
                  /\ resp[t].out.val.headers["content-range"][1][6] = row.resource_size

\* A 206 response of GET carries a slice shorter than the recorded size,
\* for a range that ends beyond the last byte of the resource.
C16_Witness ==
    \E t \in GetsFound :
        /\ resp[t].out.ok
        /\ resp[t].out.val.status = 206
        /\ loc[t].end.some
        /\ loc[t].end.val >= loc[t].resource.resource_size
        /\ Len(resp[t].out.val.body) < loc[t].resource.resource_size
        /\ resp[t].out.val.headers["content-range"][1][6] = loc[t].resource.resource_size

\* C17: when a GET gives a range start and no end, the end shown in
\* Content-Range comes from the recorded size of the resource (its last
\* byte, size - 1) and not from the length of the slice the store returned.
C17_EndFromRecordedSize ==
    \A t \in GetsFound :
        (/\ loc[t].start.some
         /\ ~loc[t].end.some
         /\ resp[t].out.ok
         /\ resp[t].out.val.status = 206) =>
            /\ resp[t].out.val.headers["content-range"] # <<>>
            /\ resp[t].out.val.headers["content-range"][1][4]
                  = loc[t].resource.resource_size - 1

\* C18: every response that leaves the pipeline with a status (200, 206,
\* 400, 404, 413) carries exactly one value of the correlation header,
\* whether the request came with none, one or several.
C18_OneCorrelationId ==
    \A t \in Done :
        resp[t].out.ok =>
            /\ resp[t].out.val.status \in {200, 206, 400, 404, 413}
            /\ Len(resp[t].out.val.headers[RID_HEADER]) = 1

\* A request that came with two values of the correlation header has been
\* answered 413 by the body guard, with one value.
C18_Witness ==
    \E t \in Done :
        /\ Len(req[t].received[RID_HEADER]) = 2
        /\ resp[t].out.ok
        /\ resp[t].out.val.status = 413
        /\ resp[t].inner = None
        /\ Len(resp[t].out.val.headers[RID_HEADER]) = 1

\* C19: the correlation id the handler sees in the request is the one the
\* server generated, whatever the client sent, and the response carries
\* that same id.
C19_ServerId ==
    \A t \in Tasks :
        pc[t] # "idle" =>
            /\ request_id[t] = <<"s">> \o hex_encode(RANDOM)
            /\ req[t].headers[RID_HEADER] = <<request_id[t]>>
            /\ get_request_id(req[t]) = request_id[t]
            /\ (pc[t] = "done" /\ resp[t].out.ok) =>
                  resp[t].out.val.headers[RID_HEADER] = <<request_id[t]>>

\* An upload that came with a correlation id of the client's has been
\* answered 200 with the server's id, which the handler saw in its place.
C19_Witness ==
    \E t \in Done :
        /\ req[t].method = "POST"
        /\ req[t].received[RID_HEADER] = <<<<"c">>>>
        /\ get_request_id(req[t]) = request_id[t]
        /\ request_id[t] # <<"c">>
        /\ calls[t] # <<>>
        /\ resp[t].out.ok
        /\ resp[t].out.val.status = 200
        /\ resp[t].out.val.headers[RID_HEADER] = <<request_id[t]>>

\* C20: an upload answered 200, new or deduplicated, has as its body the
\* url with the scheme https, the authority that is the Host header of the
\* request when it has one and the configured domain otherwise, and the
\* path /get/{id}, id being the id of the row that was found or created.
C20_UploadUrl ==
    \A t \in Done :
        (/\ loc[t].caller = "handle_upload"
         /\ resp[t].out.ok
         /\ resp[t].out.val.status = 200) =>
            LET authority == IF req[t].received["host"] # <<>>
                             THEN req[t].received["host"][1]
                             ELSE DOMAIN_NAME
                created == \E i \in 1..Len(calls[t]) : calls[t][i] = "insert_resource"
            IN \E row \in resources :
                  /\ row.hash = Sha256Hex(req[t].body)
                  /\ created => row.id = loc[t].resource_id
                  /\ resp[t].out.val.body =
                        <<"h", "t", "t", "p", "s", ":", "/", "/">> \o authority
                        \o <<"/", "g", "e", "t", "/">> \o row.id

\* An upload with a Host header has been answered 200 from the lookup by
\* hash, without a new row or a put, with the url of the found row on that
\* host.
C20_Witness ==
    \E t \in Done :
        /\ loc[t].caller = "handle_upload"
        /\ req[t].received["host"] = <<<<"h">>>>
        /\ calls[t] = <<"handle_upload", "get_resource_by_hash">>
        /\ resp[t].out.ok
        /\ resp[t].out.val.status = 200
        /\ \E row \in resources :
              resp[t].out.val.body =
                 <<"h", "t", "t", "p", "s", ":", "/", "/", "h", "/", "g", "e", "t", "/">>
                 \o row.id

(***************************************************************************)
(* Range parsing, failed lookups and the order of an upload's steps,       *)
(* checked under SpecHeader.                                               *)
(***************************************************************************)
\* The GET and HEAD requests that found their row and so parsed their Range
\* header.
Parsed == GetsFound \cup HeadsFound

\* The Range header as the client sent it, if any.
RangeSent(t) == HeaderGet(req[t].received, "range")

\* C21 as stated: in GET and HEAD alike, a Range header that does not start
\* with bytes= gives (none, none); otherwise what follows bytes= is split
\* once, at its first '-', and gives (none, none) unless that makes two
\* parts; each part is parsed on its own as an unsigned integer, a part that
\* does not parse being none; no header value ends the parsing in an error.
C21_SplitOnce ==
    \A t \in Parsed :
        LET range == RangeSent(t)
            rest == SubSeq(range.val, Len(BYTES_EQ) + 1, Len(range.val))
            dashes == {i \in 1..Len(rest) : rest[i] = "-"}
            first == CHOOSE i \in dashes : \A j \in dashes : i <= j
        IN <<loc[t].start, loc[t].end>> =
              IF ~range.some THEN <<None, None>>
              ELSE IF ~starts_with(range.val, BYTES_EQ) THEN <<None, None>>
              ELSE IF dashes = {} THEN <<None, None>>
              ELSE <<parse_u64(SubSeq(rest, 1, first - 1)),
                     parse_u64(SubSeq(rest, first + 1, Len(rest)))>>

\* C21, amended: a Range header that is not visible ASCII or does not start
\* with bytes= gives (none, none); otherwise every bytes= is taken out of
\* the value and the rest is split at each of its '-', and gives
\* (none, none) unless that makes exactly two parts; each part is parsed on
\* its own as an unsigned integer, a part that does not parse being none.
\* A header that gives (none, none) is not rejected: its request ends as
\* one without a Range header does, in 200 or in a failure of the store.
C21_RangeParsing ==
    \A t \in Parsed :
        LET range == RangeSent(t)
            parts == split(remove_all(range.val, BYTES_EQ), "-")
        IN /\ <<loc[t].start, loc[t].end>> =
                 IF ~range.some THEN <<None, None>>
                 ELSE IF \E i \in 1..Len(range.val) : range.val[i] = NON_ASCII
                      THEN <<None, None>>
                 ELSE IF Take(range.val, Len(BYTES_EQ)) # BYTES_EQ THEN <<None, None>>
                 ELSE IF Len(parts) # 2 THEN <<None, None>>
                 ELSE <<parse_u64(parts[1]), parse_u64(parts[2])>>
           /\ <<loc[t].start, loc[t].end>> = <<None, None>> =>
                 IF resp[t].out.ok
                 THEN resp[t].out.val.status = 200
                 ELSE resp[t].out.err \in {"store", "ResourceNotFound"}

\* A GET whose Range header has three parts was given no range and has
\* been answered 200.
C21_Witness ==
    \E t \in GetsFound :
        /\ RangeSent(t) = Some(BYTES_EQ \o <<"1", "-", "2", "-", "3">>)
        /\ <<loc[t].start, loc[t].end>> = <<None, None>>
        /\ resp[t].out.ok
        /\ resp[t].out.val.status = 200

\* C22: a lookup that finds no row is a normal outcome: the upload goes on
\* to take an id, GET and HEAD answer 404.  A lookup that fails to execute
\* ends the request in an error: no 404, no 200, and in an upload no id
\* taken, no insert and no put.
C22_LookupFailure ==
    \A t \in Tasks :
        "fetched" \in DOMAIN loc[t] =>
            CASE loc[t].fetched = "sqlx" ->
                   /\ pc[t] = "done"
                   /\ ~resp[t].out.ok
                   /\ calls[t] = <<loc[t].caller,
                                   IF loc[t].caller = "handle_upload"
                                   THEN "get_resource_by_hash"
                                   ELSE "get_resource_by_id">>
              [] loc[t].fetched = "RowNotFound" ->
                   IF loc[t].caller = "handle_upload"
                   THEN /\ Len(calls[t]) >= 3
                        /\ calls[t][3] = "get_id"
                   ELSE /\ pc[t] = "done"
                        /\ resp[t].out.ok
                        /\ resp[t].out.val.status = 404
              [] OTHER -> TRUE

\* With a row stored, the lookup by hash of an upload failed to execute and
\* the upload has ended in the error, with nothing else called.
C22_Witness ==
    \E t \in Done :
        /\ resources # {}
        /\ loc[t].caller = "handle_upload"
        /\ "fetched" \in DOMAIN loc[t]
        /\ loc[t].fetched = "sqlx"
        /\ resp[t].out = Err("db")
        /\ calls[t] = <<"handle_upload", "get_resource_by_hash">>

(***************************************************************************)
(* Properties of the ids and of the steps of uploads on several processes, *)
(* checked under SpecIds.                                                  *)
(***************************************************************************)
\* The ids get_id has handed out, with the process and the position.
HandedOut == {x \in Procs \X (1..NumTasks) : x[2] <= Len(returned[x[1]])}

\* C23: ids are unique and never reused: no two rows have the same id, no
\* id is handed out twice by the generators of the processes that share the
\* counter, no id still queued has been handed out, and every row has an id
\* that was handed out, whatever uploads failed on the way.
C23_UniqueIds ==
    /\ \A r1, r2 \in resources : r1.id = r2.id => r1 = r2
    /\ \A x, y \in HandedOut :
          returned[x[1]][x[2]] = returned[y[1]][y[2]] => x = y
    /\ \A g \in Procs : \A i \in 1..Len(id_list[g]) : \A x \in HandedOut :
          id_list[g][i] # returned[x[1]][x[2]]
    /\ \A row \in resources : \E x \in HandedOut : row.id = returned[x[1]][x[2]]

\* Two processes have refilled from the counter, three ids are out, and
\* two rows with the same hash hold two of them: one id went to an upload
\* that failed.
C23_Witness ==
    /\ \A g \in Procs : returned[g] # <<>>
    /\ TotalReturned >= 3
    /\ Cardinality(resources) = 2
    /\ \E r1, r2 \in resources : r1 # r2 /\ r1.hash = r2.hash
    /\ \E t \in Done : /\ loc[t].caller = "handle_upload"
                       /\ "resource_id" \in DOMAIN loc[t]
                       /\ loc[t].resource_id # <<>>
                       /\ ~resp[t].out.ok

(***************************************************************************)
(* Further properties of the generator, checked under SpecGen.             *)
(***************************************************************************)
\* The callers of a generator that await its counter update.
Refilling(g) == {t \in Tasks : proc[t] = g /\ pc[t] = "get_id_db"}

\* C24: the check of the queue, the refill and the pop are one critical
\* section held across the counter update: of the callers of one generator
\* at most one awaits a counter update, and that one holds the lock; a
\* caller that finds an id in the queue takes the first and leaves the
\* counter alone, and only a caller that finds the queue empty goes to the
\* counter; no id is returned to two callers of the generator.
C24_CriticalSection ==
    /\ [](\A g \in Procs :
             /\ Cardinality(Refilling(g)) <= 1
             /\ \A t \in Refilling(g) : mutex[g] = t
             /\ \A i, j \in 1..Len(returned[g]) :
                   returned[g][i] = returned[g][j] => i = j)
    /\ [][\A t \in Tasks :
             (pc[t] = "get_id_lock" /\ pc'[t] # "get_id_lock") =>
                IF id_list[proc[t]] # <<>>
                THEN /\ pc'[t] # "get_id_db"
                     /\ id_value' = id_value
                     /\ refill_log' = refill_log
                     /\ loc'[t].ret = Ok(Head(id_list[proc[t]]))
                     /\ id_list'[proc[t]] = Tail(id_list[proc[t]])
                ELSE /\ pc'[t] = "get_id_db"
                     /\ mutex'[proc[t]] = t
      ]_vars

\* A caller awaits the counter update with the lock held while another
\* caller of the same generator waits for the lock, after the calls before
\* them have emptied the queue of a refill.
C24_Witness ==
    \E t, u \in Tasks :
        /\ t # u
        /\ proc[t] = proc[u]
        /\ pc[t] = "get_id_db"
        /\ mutex[proc[t]] = t
        /\ pc[u] = "get_id_lock"
        /\ id_list[proc[t]] = <<>>
        /\ Len(returned[proc[t]]) >= step


\* ---------------------------------------------------------------------
\* Refill ranges against one counter row (generate.rs:50-77).

Minted == UNION {{e.ints[i] : i \in 1..Len(e.ints)} : e \in {refill_log[k] : k \in 1..Len(refill_log)}}

BlockOf(c0, n) == LET j == (n - c0 - 1) \div step IN (c0 + step * j + 1)..(c0 + step * (j + 1))

ExactRange(e) ==
    /\ Len(e.ints) = step
    /\ \A i \in 1..step : e.ints[i] = e.max_id - step + i

\* C25 as stated: every refill that receives max mints the step integers
\* max-step+1 .. max in ascending order, and the integers minted by all
\* refills, from the initial counter value c0, are exactly c0+1 .. the
\* current counter value.
C25_NoGap ==
    /\ \A k \in 1..Len(refill_log) : ExactRange(refill_log[k])
    /\ \E c0 \in InitialCounters : Minted = (c0 + 1)..id_value

\* C25 amended: every refill that receives max mints the step integers
\* max-step+1 .. max in ascending order; no integer is minted twice; the
\* minted integers lie in c0+1 .. the current counter value, and the
\* integers of that interval that were not minted are whole ranges of
\* step integers, one for each update the database applied without the
\* generator receiving its value; when every applied update was received
\* the minted integers are exactly c0+1 .. the current counter value.
C25_RefillRanges ==
    /\ \A k \in 1..Len(refill_log) : ExactRange(refill_log[k])
    /\ \A k, l \in 1..Len(refill_log) :
          k # l => refill_log[k].max_id # refill_log[l].max_id
    /\ \E c0 \in InitialCounters :
          LET all == (c0 + 1)..id_value
              gaps == all \ Minted IN
          /\ Minted \subseteq all
          /\ \A n \in gaps : BlockOf(c0, n) \subseteq gaps
          /\ Cardinality(gaps) = id_value - c0 - step * Len(refill_log)
          /\ (id_value - c0 = step * Len(refill_log)) => Minted = all

\* Two refills by different processes with an unanswered update before
\* the second one.
C25_Witness ==
    /\ Len(refill_log) >= 2
    /\ refill_log[1].proc # refill_log[2].proc
    /\ refill_log[2].before > refill_log[1].max_id


(***************************************************************************)
(* The order of the steps of an upload (handle.rs:296-320), checked under  *)
(* SpecIds.                                                                *)
(***************************************************************************)
UploadOrder ==
    <<"handle_upload", "get_resource_by_hash", "get_id", "insert_resource", "put">>

\* The calls of a request without the generator's own call to the counter.
HandlerCalls(t) == SelectSeq(calls[t], LAMBDA c : c # "update_id_generate")

Called(t, name) == \E i \in 1..Len(calls[t]) : calls[t][i] = name

Uploads == {t \in Tasks : calls[t] # <<>> /\ calls[t][1] = "handle_upload"}

\* C26: the calls of every upload are a prefix of lookup, get_id, insert,
\* put in that order; get_id is called only after the lookup has completed
\* and found no row, the insert only with an id that get_id has returned,
\* the put only after the row of that id is in the metadata store; no blob
\* is stored under an id that has no row.
C26_StepOrder ==
    /\ \A t \in Uploads :
          /\ Len(HandlerCalls(t)) <= Len(UploadOrder)
          /\ HandlerCalls(t) = SubSeq(UploadOrder, 1, Len(HandlerCalls(t)))
          /\ Called(t, "get_id") => loc[t].fetched = "RowNotFound"
          /\ Called(t, "insert_resource") =>
                \E x \in HandedOut : /\ x[1] = proc[t]
                                     /\ returned[x[1]][x[2]] = loc[t].resource_id
          /\ Called(t, "put") => NewRow(loc[t]) \in resources
    /\ \A key \in DOMAIN blobs :
          \E row \in resources : BlobKey(row.bucket, row.id) = key

\* One upload has stored its blob and another, in another process, has its
\* id and has not yet inserted its row.
C26_Witness ==
    \E t, u \in Uploads :
        /\ Called(t, "put")
        /\ resp[t].out.ok
        /\ BlobKey(loc[t].bucket, loc[t].resource_id) \in DOMAIN blobs
        /\ proc[u] # proc[t]
        /\ pc[u] = "upload_insert"


CountCalls(t, name) == Cardinality({i \in 1..Len(calls[t]) : calls[t][i] = name})

\* The uploads whose put has returned an error.
FailedPuts == {t \in Uploads \cap Done : Called(t, "put") /\ ~resp[t].out.ok}

\* C27: an upload whose put fails after its row was inserted ends with the
\* store's error as its outcome, has called insert and put once each, and
\* its row stays in the metadata store with no blob under its bucket and
\* id, then and ever after.
C27_FailedPut ==
    \A t \in FailedPuts :
        /\ resp[t].out = Err("store")
        /\ resp[t].inner = Some(Err("store"))
        /\ CountCalls(t, "insert_resource") = 1
        /\ CountCalls(t, "put") = 1
        /\ NewRow(loc[t]) \in resources
        /\ BlobKey(loc[t].bucket, loc[t].resource_id) \notin DOMAIN blobs

\* A put has failed, and a later upload of the same process has stored its
\* blob: the row of the failed one is still there without a blob.
C27_Witness ==
    \E t \in FailedPuts : \E u \in Uploads \cap Done :
        /\ u > t
        /\ proc[u] = proc[t]
        /\ Called(u, "put")
        /\ resp[u].out.ok
        /\ Cardinality(resources) = 2
        /\ Cardinality(DOMAIN blobs) = 1


\* The uploads whose lookup by hash has found a row.
Hits == {t \in Uploads : "fetched" \in DOMAIN loc[t] /\ loc[t].fetched = "row"}

\* C28: an upload whose lookup finds a row is answered at that step, having
\* called nothing but the lookup, and no step of it, from its arrival to
\* its answer, changes the queue of any generator, the lock, the counter,
\* the rows (the create_time of the found row with them) or the blobs.
C28_HitChangesNothing ==
    [][\A t \in Tasks :
          /\ (/\ pc[t] # pc'[t]
              /\ \/ pc'[t] = "upload_lookup"
                 \/ pc[t] = "upload_lookup" /\ loc'[t].fetched = "row")
             => UNCHANGED <<id_list, mutex, id_value, refill_log, returned,
                            resources, blobs>>
          /\ (pc[t] = "upload_lookup" /\ loc'[t].fetched = "row")
             => /\ pc'[t] = "done"
                /\ calls'[t] = <<"handle_upload", "get_resource_by_hash">>
                /\ resp'[t].out.ok
      ]_vars

\* An upload has been answered from a row that another upload inserted,
\* while an upload of another process holds an id of its own.
C28_Witness ==
    \E t \in Hits \cap Done : \E u \in Uploads :
        /\ resp[t].out.ok
        /\ proc[u] # proc[t]
        /\ pc[u] = "upload_insert"
        /\ \E row \in resources : row.hash = loc[t].hash_result


(***************************************************************************)
(* The buffer of the body guard (size_limit.rs:48-65), checked under       *)
(* SpecPipe.                                                               *)
(***************************************************************************)
\* The length of the chunk the guard took last from the body.
LastChunkLen(t) ==
    IF ChunksRead(t) = 0 THEN 0 ELSE Len(req[t].sent[ChunksRead(t)])

\* C29: the bytes the guard has buffered for a request are never more than
\* the limit and the chunk it took last; whenever it goes on to wait for a
\* further chunk it holds at most the limit.
C29_BufferBound ==
    \A t \in Tasks :
        req[t] # NoReq =>
            /\ Len(buf[t]) <= max_body_size + LastChunkLen(t)
            /\ pc[t] = "read_body" => Len(buf[t]) <= max_body_size

\* A body of two chunks of two bytes against a limit of one: the guard
\* stopped after the first chunk, holding the limit and one byte more, and
\* never held the four bytes sent.
C29_Witness ==
    \E t \in Tasks :
        /\ req[t] # NoReq
        /\ req[t].streamed
        /\ pc[t] = "done"
        /\ max_body_size = 1
        /\ Len(req[t].sent) = 2
        /\ Len(SentBytes(t)) = 4
        /\ ChunksRead(t) = 1
        /\ Len(buf[t]) = 2


(***************************************************************************)
(* The error path of the request tagger (request_id.rs:23-33), checked     *)
(* under SpecHeader.                                                       *)
(***************************************************************************)
\* The requests whose handler has ended in an error.
HandlerErrors == {t \in Done : resp[t].inner # None /\ ~resp[t].inner.val.ok}

\* C30: when the handler ends in an error the tagger's outcome is that same
\* error, which is no response and so carries no header; an outcome that
\* leaves with the correlation header is one whose handler, or the body
\* guard before it, gave a response, and that response had not the header
\* before the tagger put it.
C30_ErrorUnchanged ==
    /\ \A t \in HandlerErrors :
          /\ resp[t].out = resp[t].inner.val
          /\ DOMAIN resp[t].out = {"ok", "err"}
    /\ \A t \in Done :
          resp[t].out.ok =>
              /\ resp[t].out.val.headers[RID_HEADER] = <<request_id[t]>>
              /\ resp[t].inner # None =>
                    /\ resp[t].inner.val.ok
                    /\ resp[t].inner.val.val.headers[RID_HEADER] = <<>>
                    /\ resp[t].out.val.status = resp[t].inner.val.val.status

\* A retrieval that came with a correlation id of the client has ended in
\* the store's error, and the tagger has returned that error.
C30_Witness ==
    \E t \in HandlerErrors :
        /\ calls[t][1] = "handle_get"
        /\ req[t].received[RID_HEADER] # <<>>
        /\ request_id[t] # <<>>
        /\ resp[t].inner = Some(Err("store"))
        /\ resp[t].out = Err("store")


(***************************************************************************)
(* Retrieval of what an upload was answered with (handle.rs:296-320 and    *)
(* 382-391, store/cos/mod.rs:160-166), checked under Spec.                 *)
(***************************************************************************)
\* The GETs without Range that started after upload u was answered 200 and
\* ask for the id of its answer, the database and the store answering.
LaterGets(u) ==
    {g \in Tasks : /\ GetDone(g)
                   /\ resp[u].out.val.body \in seen[g]
                   /\ loc[g].resource_id = UrlId(resp[u].out.val.body)
                   /\ req[g].headers["range"] = <<>>
                   /\ ~Transient(g)}

\* C31: every GET of the id an upload of b was answered 200 with, made
\* after that answer, returns 200 with body b, whether the upload stored
\* the blob itself or was answered from the row an earlier upload of b had
\* inserted.
C31_AnsweredIsServed ==
    \A u \in AnsweredUploads : \A g \in LaterGets(u) :
        /\ resp[g].out.ok
        /\ resp[g].out.val.status = 200
        /\ resp[g].out.val.body = loc[u].data


(***************************************************************************)
(* The numbers of HEAD and GET (handle.rs:398-407 and 457-505), checked    *)
(* under SpecHeader.  A negative number of the model is a wrapped u64.     *)
(***************************************************************************)
\* The content length a HEAD that was answered reports: the Content-Length
\* header on 206, the computed total otherwise.
ReportedLength(t) ==
    IF resp[t].out.val.status = 206
    THEN resp[t].out.val.headers["content-length"][1]
    ELSE loc[t].clamp.val[3]

\* C32: the content length every answered HEAD reports is at most the size
\* S of the resource, for every range, a start of 0 and an end of S
\* included.
C32_LengthWithinSize ==
    \A t \in HeadsFound :
        resp[t].out.ok =>
            /\ 0 <= ReportedLength(t)
            /\ ReportedLength(t) <= loc[t].resource.resource_size


\* C33: the subtractions of HEAD's clamping never underflow: every HEAD
\* that found its row computes its triple without panicking, and the length
\* is a number from 0 to S + 1, not a wrapped one, for two-sided ranges with
\* start above end as for every other range.
C33_NoUnderflow ==
    \A t \in HeadsFound :
        /\ resp[t].out # Err("panic")
        /\ loc[t].clamp.some
        /\ loc[t].clamp.val[3] \in 0..(loc[t].resource.resource_size + 1)


\* C34: for a GET with a start and no end, the end of Content-Range, the
\* length of the returned slice minus the start minus 1, is computed
\* without panicking or wrapping, and the interval from start to end has as
\* many bytes as the body, whatever slice the store returned.
C34_StartOnlyEnd ==
    \A t \in GetsFound :
        (loc[t].start.some /\ ~loc[t].end.some) =>
            /\ resp[t].out # Err("panic")
            /\ resp[t].out.ok =>
                  LET range == resp[t].out.val.headers["content-range"][1] IN
                  /\ range[4] >= 0
                  /\ range[4] - range[2] + 1 = Len(resp[t].out.val.body)


\* C35: HEAD and GET agree on the metadata of a range: the status and the
\* Content-Range of every GET that was answered for an existing resource
\* are those HEAD answers with for the same resource and the same Range
\* header.
C35_HeadAsGet ==
    \A t \in GetsFound :
        resp[t].out.ok =>
            \A head \in head_response(loc[t].resource, loc[t].start, loc[t].end) :
                /\ head.ok
                /\ head.val.status = resp[t].out.val.status
                /\ head.val.headers["content-range"]
                      = resp[t].out.val.headers["content-range"]


(***************************************************************************)
(* The frame of GET and HEAD (handle.rs:337-508; db/mod.rs:131-157 is not  *)
(* called by either), checked under SpecHeader.                            *)
(***************************************************************************)
\* The step is one of a GET or HEAD request of task t: its arrival, with
\* the routing, or a step of its handler.
ReadStep(t) ==
    /\ pc[t] # pc'[t]
    /\ pc'[t] # "idle"
    /\ req'[t].method \in {"GET", "HEAD"}

\* C36: no step of a GET or HEAD request, whether it ends in 200, 206, 400,
\* 404 or an error, changes the rows (create_time with them), the queue of
\* the generator, its lock, the counter, the ids handed out or the blobs.
C36_ReadOnly ==
    [][\A t \in Tasks :
          ReadStep(t) => UNCHANGED <<resources, id_list, mutex, id_value,
                                     refill_log, returned, blobs>>
      ]_vars

\* A GET has been answered 206 from the store, the row, the blob and the
\* queue of the generator being there.
C36_Witness ==
    \E t \in GetsFound :
        /\ resp[t].out.ok
        /\ resp[t].out.val.status = 206
        /\ loc[t].resource \in {Resource(row) : row \in resources}
        /\ BlobKey(loc[t].resource.bucket, loc[t].resource.id) \in DOMAIN blobs
        /\ id_list[proc[t]] # <<>>


(***************************************************************************)
(* The queue of a generator between calls and the return of every call     *)
(* (generate.rs:43-78), checked under SpecGen.                             *)
(***************************************************************************)
\* The ids minted by a refill, in the order in which they were queued.
MintedBy(e) == [i \in 1..Len(e.ints) |-> MintId(e.ints[i])]

GenFairness ==
    \A t \in Callers :
        /\ WF_vars(get_id_lock(t))
        /\ WF_vars(get_id_db(t) \/ get_id_db_lost(t))

SpecGenFair == GenInit /\ [][GenNext]_vars /\ GenFairness

\* The call of task t has started and has not returned.
InGetId(t) == pc[t] \in {"get_id_lock", "get_id_db"}

\* C38: under fair scheduling and a database that answers every update,
\* every call of get_id eventually returns.
C38_EveryCallReturns ==
    \A t \in Callers : InGetId(t) ~> ~InGetId(t)

\* The caller that holds the lock for a refill returns, with the lock
\* released, whether the update succeeds or fails.
HolderReturns ==
    \A t \in Callers :
        (pc[t] = "get_id_db") ~> (~InGetId(t) /\ mutex[proc[t]] # t)

\* Every call returns in the behaviours in which no waiting caller is
\* overtaken for ever: a caller that finds the lock free again and again
\* gets it.
ReturnsIfNotOvertaken ==
    (\A t \in Callers : SF_vars(get_id_lock(t))) => C38_EveryCallReturns

====
